---- MODULE Spec2Model ----
(***************************************************************************)
(* Job state reconciliation of hydrilla_backend: the job store, the poll   *)
(* path (syncJobFromApi), the push path (POST /webhook/job-update) and the *)
(* request path that creates jobs (POST /generate); the periodic cycle     *)
(* (syncAllJobs under the timer of server.ts); the pure helpers.           *)
(*                                                                         *)
(* Text values (URLs, messages, user ids) are tuples of tokens, so that a  *)
(* template string is a concatenation and String.includes is a search for  *)
(* a token.  Null is JavaScript's null/undefined, Empty is "".             *)
(***************************************************************************)
EXTENDS Integers, Sequences, FiniteSets, TLC

VARIABLES jobs, now, last, api, sched, cycles, probe, calls

vars == <<jobs, now, last, api, sched, cycles, probe, calls>>

\* ------------------------------------------------------------------ bounds
\* The logical clock stops here: no store write is issued past it.
MaxClock == 3

\* ------------------------------------------------------------ text values
Null == <<"null">>
Empty == <<>>

Truthy(v) == v # Null /\ v # Empty

\* a || b
Or(a, b) == IF Truthy(a) THEN a ELSE b

\* s.includes(tok)
Includes(s, tok) == \E i \in 1..Len(s) : s[i] = tok

JobIds == {"J1", "J2"}

\* config.s3.bucket, config.s3.region
S3Bucket == "hunyuan3d-outputs"
S3Region == "us-east-1"

\* const { jobs } = listJobs(1000)
LIST_LIMIT == 1000

\* ------------------------------------------------------------ s3Urls.ts
getDirectS3GlbUrl(jobId) ==
    <<"https://", S3Bucket, ".s3.", S3Region, ".amazonaws.com", "/image/", jobId, "/mesh.glb">>

getDirectS3PreviewUrl(jobId) ==
    <<"https://", S3Bucket, ".s3.", S3Region, ".amazonaws.com", "/image/", jobId,
      "/processed_image.png">>

\* apiUrl.includes(config.s3.bucket) && apiUrl.includes("/image/")
PointsToOurBucket(apiUrl) == Includes(apiUrl, S3Bucket) /\ Includes(apiUrl, "/image/")

\* Mutant: the test for an absent URL is missing.
normalizeGlbUrl_NoAbsentTest(jobId, apiUrl) ==
    IF apiUrl # Null /\ PointsToOurBucket(apiUrl) THEN apiUrl
    ELSE getDirectS3GlbUrl(jobId)

normalizeGlbUrl(jobId, apiUrl) ==
    IF ~Truthy(apiUrl) THEN Null
    ELSE IF PointsToOurBucket(apiUrl) THEN apiUrl
    ELSE getDirectS3GlbUrl(jobId)

normalizePreviewUrl(jobId, apiUrl) ==
    IF ~Truthy(apiUrl) THEN Null
    ELSE IF PointsToOurBucket(apiUrl) THEN apiUrl
    ELSE getDirectS3PreviewUrl(jobId)

\* ------------------------------------------------------- status mapping
\* Mutant: a status outside the vocabulary counts as a failure.
convertStatus_DefaultFail(apiStatus) ==
    CASE apiStatus = "pending" -> "WAIT"
      [] apiStatus = "processing" -> "RUN"
      [] apiStatus = "completed" -> "DONE"
      [] OTHER -> "FAIL"

\* jobSync.ts convertStatus
convertStatus(apiStatus) ==
    CASE apiStatus = "pending" -> "WAIT"
      [] apiStatus = "processing" -> "RUN"
      [] apiStatus = "completed" -> "DONE"
      [] apiStatus = "failed" -> "FAIL"
      [] apiStatus = "cancelled" -> "FAIL"
      [] OTHER -> "WAIT"

\* routes/threeD.ts convertStatus
routeConvertStatus(apiStatus) ==
    CASE apiStatus = "pending" -> "WAIT"
      [] apiStatus = "processing" -> "RUN"
      [] apiStatus = "failed" -> "FAIL"
      [] apiStatus = "cancelled" -> "FAIL"
      [] apiStatus = "completed" -> "DONE"
      [] OTHER -> "WAIT"

\* ------------------------------------------------------ repository/jobs.ts
\* The jobs table is a function from the ids of the stored rows to the rows.
\* Every write that succeeds advances the clock and stamps the row with it.

Active == {"WAIT", "RUN"}
Terminal == {"FAIL", "DONE"}

NewRow(userId, prompt, imageUrl, clk) ==
    [userId |-> userId, status |-> "WAIT", prompt |-> prompt, imageUrl |-> imageUrl,
     resultGlbUrl |-> Null, previewImageUrl |-> Null,
     errorCode |-> Null, errorMessage |-> Null,
     createdAt |-> clk, updatedAt |-> clk]

\* insert into jobs; the caller has checked that the primary key is free
createJob(store, clk, id, userId, prompt, imageUrl) ==
    [jobs |-> store @@ (id :> NewRow(userId, prompt, imageUrl, clk + 1)), now |-> clk + 1]

\* Mutant: the update has no where clause.
updateJobStatus_EveryRow(store, clk, jobId, status, errorCode, errorMessage) ==
    [jobs |-> [id \in DOMAIN store |->
                 [store[id] EXCEPT !.status = status, !.errorCode = errorCode,
                                   !.errorMessage = errorMessage, !.updatedAt = clk + 1]],
     now |-> clk + 1]

\* update jobs set status, error_code, error_message, updated_at where id = jobId
updateJobStatus(store, clk, jobId, status, errorCode, errorMessage) ==
    [jobs |-> [id \in DOMAIN store |->
                 IF id = jobId
                 THEN [store[id] EXCEPT !.status = status, !.errorCode = errorCode,
                                        !.errorMessage = errorMessage, !.updatedAt = clk + 1]
                 ELSE store[id]],
     now |-> clk + 1]

\* update jobs set result_glb_url, preview_image_url, updated_at where id = jobId
updateJobResult(store, clk, jobId, resultGlbUrl, previewImageUrl) ==
    [jobs |-> [id \in DOMAIN store |->
                 IF id = jobId
                 THEN [store[id] EXCEPT !.resultGlbUrl = resultGlbUrl,
                                        !.previewImageUrl = previewImageUrl,
                                        !.updatedAt = clk + 1]
                 ELSE store[id]],
     now |-> clk + 1]

\* select * from jobs order by created_at desc limit `limit`, as the set of ids
listJobs(store, limit) ==
    {id \in DOMAIN store :
        Cardinality({o \in DOMAIN store : store[o].createdAt > store[id].createdAt}) < limit}

\* Mutant: the filter keeps every job that is not DONE.
activeJobs_NotDone(store) == {id \in listJobs(store, LIST_LIMIT) : store[id].status # "DONE"}

\* jobs.filter((job) => job.status === "WAIT" || job.status === "RUN")
activeJobs(store) == {id \in listJobs(store, LIST_LIMIT) : store[id].status \in Active}

\* ------------------------------------------------------ external payloads
CdnGlb == <<"https://", "cdn.example", "/tmp/", "abc.glb">>
CdnPng == <<"https://", "cdn.example", "/tmp/", "abc.png">>
\* a foreign host whose path happens to hold the bucket name and /image/
MirrorGlb == <<"https://", "cdn.example", "/", S3Bucket, "/image/", "abc.glb">>

MkResult(mesh_url, output, processed_image_url, generated_image_url) ==
    [mesh_url |-> mesh_url, output |-> output,
     processed_image_url |-> processed_image_url,
     generated_image_url |-> generated_image_url,
     processed_image |-> Null, generated_image |-> Null, prompt |-> Null]

\* result is <<>> when the payload has none, <<r>> when it has the object r
NoResult == <<>>
Results ==
    { <<MkResult(CdnGlb, Null, CdnPng, Null)>>,
      <<MkResult(getDirectS3GlbUrl("J1"), Null, Null, getDirectS3PreviewUrl("J1"))>>,
      <<MkResult(Empty, MirrorGlb, Null, Null)>> }

\* "queued" stands for every status outside the API's vocabulary.
ApiStatuses == {"pending", "processing", "completed", "failed", "queued"}
ApiErrors == {Null, <<"oom">>}

\* The handlers read the result only under status "completed".
Bodies ==
    [status : ApiStatuses, result : {NoResult}, error : ApiErrors]
    \cup [status : {"completed"}, result : Results, error : {Null}]

NoBody == [status |-> "pending", result |-> NoResult, error |-> Null]

\* What fetch() and response.json() can give: a body, a 404, another error
\* status, an abort by the 10 s timer, a transport error, an unparsable body.
Responses ==
    [kind : {"ok"}, body : Bodies]
    \cup [kind : {"http404", "http500", "abort", "neterr", "badjson"}, body : {NoBody}]

UserIds == {Null, <<"u1">>}

\* --------------------------------------------------- jobSync.ts syncJobFromApi
\* A handler's outcome: the store and clock it leaves, its result, the store
\* writes it issued in order, the place it left by, and the store call that
\* threw ("none" when none did).
Outcome(store, clk, ret, writes, exit, threw) ==
    [jobs |-> store, now |-> clk, ret |-> ret, writes |-> writes, exit |-> exit,
     threw |-> threw]

StoreFaults == {"none", "getJob", "createJob", "updateJobStatus", "updateJobResult"}

\* Mutant: the 404 branch is missing and the answer is read as a body.
FetchExit_404AsOk(resp) ==
    CASE resp.kind \in {"ok", "http404"} -> "ok"
      [] resp.kind = "abort" -> "timeout"
      [] OTHER -> "caught"

\* Mutant: the outer try/catch is missing, so that an error of the fetch
\* other than the abort leaves the function as an exception.
FetchExit_Rethrow(resp) ==
    CASE resp.kind = "ok" -> "ok"
      [] resp.kind = "http404" -> "apiNotFound"
      [] resp.kind = "abort" -> "timeout"
      [] OTHER -> "raised"

\* Lines 76-99: where the fetch leaves the function, or "ok" with a parsed body.
FetchExit(resp) ==
    CASE resp.kind = "ok" -> "ok"
      [] resp.kind = "http404" -> "apiNotFound"
      [] resp.kind = "abort" -> "timeout"
      [] OTHER -> "caught"

\* Mutant: the status is written without comparing it.
StatusChanged_Always(dbJob, dbStatus) == TRUE

\* if (dbJob.status !== dbStatus)
StatusChanged(dbJob, dbStatus) == dbJob.status # dbStatus

\* if (dbJob.resultGlbUrl !== glbUrl || dbJob.previewImageUrl !== previewUrl)
ResultChanged(dbJob, glbUrl, previewUrl) ==
    dbJob.resultGlbUrl # glbUrl \/ dbJob.previewImageUrl # previewUrl

\* Mutant: output is tried before mesh_url.
MeshCandidate_OutputFirst(result) == Or(result.output, result.mesh_url)

\* apiJob.result.mesh_url || apiJob.result.output
MeshCandidate(result) == Or(result.mesh_url, result.output)

\* processed_image_url || generated_image_url || processed_image || generated_image
PreviewCandidate(result) ==
    Or(result.processed_image_url,
       Or(result.generated_image_url, Or(result.processed_image, result.generated_image)))

\* Mutant: a missing record is created, as GET /status/:jobId does.
SyncMissingRecord_Create(store, clk, jobId, apiJob) ==
    LET c == createJob(store, clk, jobId, Null, Null, Null)
    IN Outcome(c.jobs, c.now, TRUE, <<"createJob">>, "synced", "none")

\* Mutant: a job without a record is skipped and reported as synced.
SyncMissingRecord_ReturnTrue(store, clk, jobId, apiJob) ==
    Outcome(store, clk, TRUE, <<>>, "skipped", "none")

\* if (!dbJob) return false
SyncMissingRecord(store, clk, jobId, apiJob) ==
    Outcome(store, clk, FALSE, <<>>, "dbNotFound", "none")

\* Lines 121-144, entered with the outcome `o` of the status step.
SyncResultStep(o, dbJob, jobId, apiJob, fault) ==
    IF apiJob.status = "completed" /\ apiJob.result # NoResult
    THEN LET result == apiJob.result[1]
             glbUrl == normalizeGlbUrl(jobId, MeshCandidate(result))
             previewUrl == normalizePreviewUrl(jobId, PreviewCandidate(result))
         IN IF ResultChanged(dbJob, glbUrl, previewUrl)
            THEN IF fault = "updateJobResult"
                 THEN Outcome(o.jobs, o.now, FALSE, o.writes, "caught", "updateJobResult")
                 ELSE LET w == updateJobResult(o.jobs, o.now, jobId, glbUrl, previewUrl)
                      IN Outcome(w.jobs, w.now, TRUE,
                                 Append(o.writes, "updateJobResult"), "synced", "none")
            ELSE o
    ELSE o

\* Mutant: the stored status is compared with the API's own word for it, so
\* that the two never agree.
SyncStatusStep_CompareRaw(store, clk, dbJob, jobId, apiJob, fault) ==
    LET dbStatus == convertStatus(apiJob.status)
    IN IF dbJob.status # apiJob.status
       THEN IF fault = "updateJobStatus"
            THEN Outcome(store, clk, FALSE, <<>>, "caught", "updateJobStatus")
            ELSE LET w == updateJobStatus(store, clk, jobId, dbStatus, Null,
                                          Or(apiJob.error, Null))
                 IN SyncResultStep(
                        Outcome(w.jobs, w.now, TRUE, <<"updateJobStatus">>, "synced", "none"),
                        dbJob, jobId, apiJob, fault)
       ELSE SyncResultStep(Outcome(store, clk, TRUE, <<>>, "synced", "none"),
                           dbJob, jobId, apiJob, fault)

\* Lines 108-119, then the result step.
SyncStatusStep(store, clk, dbJob, jobId, apiJob, fault) ==
    LET dbStatus == convertStatus(apiJob.status)
    IN IF StatusChanged(dbJob, dbStatus)
       THEN IF fault = "updateJobStatus"
            THEN Outcome(store, clk, FALSE, <<>>, "caught", "updateJobStatus")
            ELSE LET w == updateJobStatus(store, clk, jobId, dbStatus, Null,
                                          Or(apiJob.error, Null))
                 IN SyncResultStep(
                        Outcome(w.jobs, w.now, TRUE, <<"updateJobStatus">>, "synced", "none"),
                        dbJob, jobId, apiJob, fault)
       ELSE SyncResultStep(Outcome(store, clk, TRUE, <<>>, "synced", "none"),
                           dbJob, jobId, apiJob, fault)

\* Mutant: a timed-out fetch marks the job failed.
syncJobFromApi_FailOnTimeout(store, clk, jobId, resp, fault) ==
    IF resp.kind = "abort" /\ jobId \in DOMAIN store
    THEN LET w == updateJobStatus(store, clk, jobId, "FAIL", Null, <<"timeout">>)
         IN Outcome(w.jobs, w.now, FALSE, <<"updateJobStatus">>, "timeout", "none")
    ELSE IF FetchExit(resp) # "ok"
    THEN Outcome(store, clk, FALSE, <<>>, FetchExit(resp), "none")
    ELSE IF fault = "getJob"
    THEN Outcome(store, clk, FALSE, <<>>, "caught", "getJob")
    ELSE IF jobId \notin DOMAIN store
    THEN SyncMissingRecord(store, clk, jobId, resp.body)
    ELSE SyncStatusStep(store, clk, store[jobId], jobId, resp.body, fault)

syncJobFromApi(store, clk, jobId, resp, fault) ==
    IF FetchExit(resp) # "ok"
    THEN Outcome(store, clk, FALSE, <<>>, FetchExit(resp), "none")
    ELSE IF fault = "getJob"
    THEN Outcome(store, clk, FALSE, <<>>, "caught", "getJob")
    ELSE IF jobId \notin DOMAIN store
    THEN SyncMissingRecord(store, clk, jobId, resp.body)
    ELSE SyncStatusStep(store, clk, store[jobId], jobId, resp.body, fault)

\* ------------------------------------- routes/threeD.ts POST /webhook/job-update
\* Lines 485-492, entered with the outcome `o` of the status write.
PushResultStep(o, job_id, body, fault) ==
    IF body.status = "completed" /\ body.result # NoResult
    THEN LET result == body.result[1]
             glbUrl == MeshCandidate(result)
             previewUrl == PreviewCandidate(result)
         IN IF fault = "updateJobResult"
            THEN Outcome(o.jobs, o.now, FALSE, o.writes, "http500", "updateJobResult")
            ELSE LET w == updateJobResult(o.jobs, o.now, job_id, Or(glbUrl, Null),
                                          Or(previewUrl, Null))
                 IN Outcome(w.jobs, w.now, TRUE, Append(o.writes, "updateJobResult"),
                            "http200", "none")
    ELSE o

\* Mutant: the error of the payload is appended to the stored message.
PushStatusStep_AppendError(o, job_id, body, fault) ==
    IF fault = "updateJobStatus"
    THEN Outcome(o.jobs, o.now, FALSE, o.writes, "http500", "updateJobStatus")
    ELSE LET old == o.jobs[job_id].errorMessage
             w == updateJobStatus(o.jobs, o.now, job_id, routeConvertStatus(body.status),
                                  Null,
                                  IF Truthy(old) /\ Truthy(body.error)
                                  THEN old \o body.error ELSE Or(body.error, Null))
         IN PushResultStep(
                Outcome(w.jobs, w.now, TRUE, Append(o.writes, "updateJobStatus"),
                        "http200", "none"),
                job_id, body, fault)

\* Lines 478-483, entered with the outcome `o` of the get-or-create step.
PushStatusStep(o, job_id, body, fault) ==
    IF fault = "updateJobStatus"
    THEN Outcome(o.jobs, o.now, FALSE, o.writes, "http500", "updateJobStatus")
    ELSE LET w == updateJobStatus(o.jobs, o.now, job_id, routeConvertStatus(body.status),
                                  Null, Or(body.error, Null))
         IN PushResultStep(
                Outcome(w.jobs, w.now, TRUE, Append(o.writes, "updateJobStatus"),
                        "http200", "none"),
                job_id, body, fault)

webhookJobUpdate(store, clk, job_id, body, user_id, fault) ==
    IF job_id = ""
    THEN Outcome(store, clk, FALSE, <<>>, "http400", "none")
    ELSE IF fault = "getJob"
    THEN Outcome(store, clk, FALSE, <<>>, "http500", "getJob")
    ELSE IF job_id \notin DOMAIN store
    THEN IF fault = "createJob"
         THEN Outcome(store, clk, FALSE, <<>>, "http500", "createJob")
         ELSE LET c == createJob(store, clk, job_id, Or(user_id, Null),
                                 IF body.result # NoResult
                                 THEN Or(body.result[1].prompt, Null) ELSE Null,
                                 Null)
              IN PushStatusStep(Outcome(c.jobs, c.now, TRUE, <<"createJob">>, "http200", "none"),
                                job_id, body, fault)
    ELSE PushStatusStep(Outcome(store, clk, TRUE, <<>>, "http200", "none"),
                        job_id, body, fault)

\* ------------------------------------------- routes/threeD.ts POST /generate
\* The external API accepts the request and names the job, or refuses it; the
\* insert fails when the store throws or the id is already a primary key.
Prompt == <<"a chair">>

generate(store, clk, jobId, userId, accepted, fault) ==
    IF ~accepted
    THEN Outcome(store, clk, FALSE, <<>>, "http400", "none")
    ELSE IF fault = "createJob" \/ jobId \in DOMAIN store
    THEN Outcome(store, clk, FALSE, <<>>, "http400", "createJob")
    ELSE LET c == createJob(store, clk, jobId, userId, Prompt, Null)
         IN Outcome(c.jobs, c.now, TRUE, <<"createJob">>, "http200", "none")

\* ------------------------------------- repository/jobs.ts, the request path
\* delete from jobs where id = jobId and user_id = userId
deleteJob(store, clk, jobId, userId) ==
    [jobs |-> [id \in {i \in DOMAIN store : ~(i = jobId /\ store[i].userId = userId)} |->
                 store[id]],
     now |-> clk + 1]

\* update jobs set user_id = userId where id = job_id (POST /register-job)
setJobOwner(store, clk, job_id, userId) ==
    [jobs |-> [id \in DOMAIN store |->
                 IF id = job_id THEN [store[id] EXCEPT !.userId = userId] ELSE store[id]],
     now |-> clk + 1]

\* ------------------------------------- routes/threeD.ts GET /status/:jobId
\* if (userId && job.userId && job.userId !== userId) return 403
MayNotView(job, userId) == Truthy(userId) /\ Truthy(job.userId) /\ job.userId # userId

\* apiJob.error || "Job failed" of GET /status/:jobId
JobFailed == <<"Job failed">>

\* Lines 256-280, entered with the outcome `o` of the get-or-create step.
StatusWriteStep(o, jobId, apiJob, fault) ==
    IF fault = "updateJobStatus"
    THEN Outcome(o.jobs, o.now, FALSE, o.writes, "http500", "updateJobStatus")
    ELSE LET status == routeConvertStatus(apiJob.status)
             w == updateJobStatus(o.jobs, o.now, jobId, status, Null, Null)
             written == Outcome(w.jobs, w.now, TRUE, Append(o.writes, "updateJobStatus"),
                                "http200", "none")
         IN IF apiJob.status = "completed" /\ apiJob.result # NoResult
            THEN IF fault = "updateJobResult"
                 THEN Outcome(w.jobs, w.now, FALSE, written.writes, "http500",
                              "updateJobResult")
                 ELSE LET result == apiJob.result[1]
                          r == updateJobResult(w.jobs, w.now, jobId,
                                               Or(MeshCandidate(result), Null),
                                               Or(PreviewCandidate(result), Null))
                      IN Outcome(r.jobs, r.now, TRUE,
                                 Append(written.writes, "updateJobResult"), "http200", "none")
            ELSE IF apiJob.status \in {"failed", "cancelled"}
            THEN LET e == updateJobStatus(w.jobs, w.now, jobId, status, Null,
                                          Or(apiJob.error, JobFailed))
                 IN Outcome(e.jobs, e.now, TRUE, Append(written.writes, "updateJobStatus"),
                            "http200", "none")
            ELSE written

\* Lines 250-254, entered with the outcome `o` of the get-or-create step.
StatusOwnerStep(o, jobId, userId, apiJob, fault) ==
    IF MayNotView(o.jobs[jobId], userId)
    THEN Outcome(o.jobs, o.now, FALSE, o.writes, "http403", "none")
    ELSE StatusWriteStep(o, jobId, apiJob, fault)

getStatus(store, clk, jobId, userId, resp, fault) ==
    IF resp.kind = "http404"
    THEN Outcome(store, clk, FALSE, <<>>, "http404", "none")
    ELSE IF resp.kind # "ok"
    THEN Outcome(store, clk, FALSE, <<>>, "http500", "none")
    ELSE IF fault = "getJob"
    THEN Outcome(store, clk, FALSE, <<>>, "http500", "getJob")
    ELSE IF jobId \notin DOMAIN store
    THEN IF fault = "createJob"
         THEN Outcome(store, clk, FALSE, <<>>, "http500", "createJob")
         ELSE LET c == createJob(store, clk, jobId, Or(userId, Null),
                                 IF resp.body.result # NoResult
                                 THEN Or(resp.body.result[1].prompt, Null) ELSE Null,
                                 Null)
              IN StatusOwnerStep(
                     Outcome(c.jobs, c.now, TRUE, <<"createJob">>, "http200", "none"),
                     jobId, userId, resp.body, fault)
    ELSE StatusOwnerStep(Outcome(store, clk, TRUE, <<>>, "http200", "none"),
                         jobId, userId, resp.body, fault)

\* ------------------------------------- routes/threeD.ts GET /result/:jobId
\* Lines 305-325: the inner try, whose catch block logs and goes on.
ResultRefreshStep(store, clk, jobId, resp, fault) ==
    LET cached == Outcome(store, clk, TRUE, <<>>, "http200", "none")
    IN IF resp.kind = "ok" /\ resp.body.status = "completed" /\ resp.body.result # NoResult
       THEN LET result == resp.body.result[1]
                glbUrl == MeshCandidate(result)
                previewUrl == PreviewCandidate(result)
            IN IF Truthy(glbUrl) \/ Truthy(previewUrl)
               THEN IF fault = "updateJobResult"
                    THEN Outcome(store, clk, TRUE, <<>>, "http200", "updateJobResult")
                    ELSE LET r == updateJobResult(store, clk, jobId, Or(glbUrl, Null),
                                                  Or(previewUrl, Null))
                         IN Outcome(r.jobs, r.now, TRUE, <<"updateJobResult">>, "http200",
                                    "none")
               ELSE cached
       ELSE cached

getResult(store, clk, jobId, userId, resp, fault) ==
    IF fault = "getJob"
    THEN Outcome(store, clk, FALSE, <<>>, "http500", "getJob")
    ELSE IF jobId \notin DOMAIN store
    THEN Outcome(store, clk, FALSE, <<>>, "http404", "none")
    ELSE IF MayNotView(store[jobId], userId)
    THEN Outcome(store, clk, FALSE, <<>>, "http403", "none")
    ELSE ResultRefreshStep(store, clk, jobId, resp, fault)

\* ------------------------------------- routes/threeD.ts POST /register-job
\* Lines 408-422: the job has a record.
RegisterExistingStep(store, clk, job_id, userId, fault) ==
    IF ~Truthy(store[job_id].userId) /\ Truthy(userId)
    THEN IF fault = "setJobOwner"
         THEN Outcome(store, clk, TRUE, <<>>, "http200", "setJobOwner")
         ELSE LET w == setJobOwner(store, clk, job_id, userId)
              IN Outcome(w.jobs, w.now, TRUE, <<"setJobOwner">>, "http200", "none")
    ELSE Outcome(store, clk, TRUE, <<>>, "http200", "none")

registerJob(store, clk, job_id, userId, prompt, fault) ==
    IF job_id = ""
    THEN Outcome(store, clk, FALSE, <<>>, "http400", "none")
    ELSE IF fault = "getJob"
    THEN Outcome(store, clk, FALSE, <<>>, "http500", "getJob")
    ELSE IF job_id \in DOMAIN store
    THEN RegisterExistingStep(store, clk, job_id, userId, fault)
    ELSE IF fault = "createJob"
    THEN Outcome(store, clk, FALSE, <<>>, "http500", "createJob")
    ELSE LET c == createJob(store, clk, job_id, Or(userId, Null), Or(prompt, Null), Null)
         IN Outcome(c.jobs, c.now, TRUE, <<"createJob">>, "http200", "none")

\* ------------------------------------- routes/threeD.ts DELETE /jobs/:jobId
\* Mutant: the job is deleted without a look at its owner.
deleteJobRoute_AnyOwner(store, clk, jobId, userId, fault) ==
    IF jobId \notin DOMAIN store
    THEN Outcome(store, clk, FALSE, <<>>, "http404", "none")
    ELSE LET d == deleteJob(store, clk, jobId, store[jobId].userId)
         IN Outcome(d.jobs, d.now, TRUE, <<"deleteJob">>, "http200", "none")

\* requireAuth answers 401 when the request carries no valid token.
deleteJobRoute(store, clk, jobId, userId, fault) ==
    IF ~Truthy(userId)
    THEN Outcome(store, clk, FALSE, <<>>, "http401", "none")
    ELSE IF fault = "getJob"
    THEN Outcome(store, clk, FALSE, <<>>, "http500", "getJob")
    ELSE IF jobId \notin DOMAIN store
    THEN Outcome(store, clk, FALSE, <<>>, "http404", "none")
    ELSE IF store[jobId].userId # userId
    THEN Outcome(store, clk, FALSE, <<>>, "http403", "none")
    ELSE IF fault = "deleteJob"
    THEN Outcome(store, clk, FALSE, <<>>, "http500", "deleteJob")
    ELSE LET d == deleteJob(store, clk, jobId, userId)
         IN Outcome(d.jobs, d.now, TRUE, <<"deleteJob">>, "http200", "none")

\* ------------------------------------------------------------ state machine
\* jobs: the jobs table.  now: the clock of the store.  last: the call that
\* has just run, with its input, its outcome and the table it found, kept
\* until its caller has taken the result (op = "none" when no call is kept).
\* `repeat` says that the call before it was the same call with the same
\* input, and that no store call threw in that one.
\* api: what the external API answers for each job at GET /status/<id>.
\* sched: the interval timer of server.ts.  cycles: the executions of
\* syncAllJobs in progress, oldest first.  probe: the helper call just made.

\* No answer is configured, no timer is set, no helper has been called.
NoApi == [id \in {} |-> [kind |-> "ok", body |-> NoBody]]

\* calls: the handler calls in progress that are followed step by step, by
\* the name of the call; none outside the specifications of races.
NoCalls == <<>>

NoTimer == [armed |-> FALSE, signalled |-> FALSE]

NoProbe ==
    [fn |-> "none", jobId |-> "", status |-> "", sync |-> "", route |-> "",
     url |-> Null, out |-> Null, again |-> Null]

EmptyStore == [id \in {} |-> NewRow(Null, Null, Null, 0)]

NoCall ==
    [op |-> "none", job |-> "", resp |-> [kind |-> "ok", body |-> NoBody],
     user |-> Null, ret |-> FALSE, writes |-> <<>>, exit |-> "none",
     threw |-> "none", before |-> EmptyStore, repeat |-> FALSE]

Record(op, job, resp, user, o, store, repeat) ==
    [op |-> op, job |-> job, resp |-> resp, user |-> user,
     ret |-> o.ret, writes |-> o.writes, exit |-> o.exit, threw |-> o.threw,
     before |-> store, repeat |-> repeat]

Init ==
    /\ jobs = EmptyStore
    /\ now = 0
    /\ last = NoCall
    /\ api = NoApi
    /\ sched = NoTimer
    /\ cycles = <<>>
    /\ probe = NoProbe
    /\ calls = NoCalls

Apply(op, job, resp, user, o, repeat) ==
    /\ o.now <= MaxClock
    /\ jobs' = o.jobs
    /\ now' = o.now
    /\ last' = Record(op, job, resp, user, o, jobs, repeat)
    /\ UNCHANGED <<api, sched, cycles, probe, calls>>

SyncFaults == {"none", "getJob", "updateJobStatus", "updateJobResult"}

\* One call of syncJobFromApi(jobId), whatever the API answers.
Sync ==
    /\ last.op = "none"
    /\ \E jobId \in JobIds, resp \in Responses, fault \in SyncFaults :
          Apply("sync", jobId, resp, Null,
                syncJobFromApi(jobs, now, jobId, resp, fault), FALSE)

\* After a call in which no store call threw, the next call of syncJobFromApi
\* for the same job finds the external response unchanged.
SyncAgain ==
    /\ last.op = "sync"
    /\ last.threw = "none"
    /\ \E fault \in SyncFaults :
          Apply("sync", last.job, last.resp, Null,
                syncJobFromApi(jobs, now, last.job, last.resp, fault), TRUE)

\* One delivery to POST /webhook/job-update.
Push ==
    /\ last.op = "none"
    /\ \E job_id \in JobIds \cup {""}, body \in Bodies, user_id \in UserIds,
          fault \in StoreFaults :
          Apply("push", job_id, [kind |-> "ok", body |-> body], user_id,
                webhookJobUpdate(jobs, now, job_id, body, user_id, fault), FALSE)

\* After a delivery in which no store call threw, the same notification is
\* delivered again.
PushAgain ==
    /\ last.op = "push"
    /\ last.threw = "none"
    /\ \E fault \in StoreFaults :
          Apply("push", last.job, last.resp, last.user,
                webhookJobUpdate(jobs, now, last.job, last.resp.body, last.user, fault),
                TRUE)

\* One POST /generate of an authenticated user.
Generate ==
    /\ last.op = "none"
    /\ \E jobId \in JobIds, accepted \in BOOLEAN, fault \in {"none", "createJob"} :
          Apply("generate", jobId, [kind |-> "ok", body |-> NoBody], <<"u1">>,
                generate(jobs, now, jobId, <<"u1">>, accepted, fault), FALSE)

\* The caller takes the result of the call; nothing of it is kept.
Settle ==
    /\ last.op # "none"
    /\ last' = NoCall
    /\ UNCHANGED <<jobs, now, api, sched, cycles, probe, calls>>

Next == Sync \/ SyncAgain \/ Push \/ PushAgain \/ Generate \/ Settle

Spec == Init /\ [][Next]_vars

\* ------------------------------------- jobSync.ts syncAllJobs, server.ts main
\* const BATCH_SIZE = 10
BATCH_SIZE == 10

\* The number of executions of syncAllJobs that are in progress at once.
MaxCycles == 2

\* The rows of `ids`, newest first (order by created_at desc).
RECURSIVE NewestFirst(_, _)
NewestFirst(store, ids) ==
    IF ids = {} THEN <<>>
    ELSE LET newest == CHOOSE id \in ids :
                           \A o \in ids : store[o].createdAt <= store[id].createdAt
         IN <<newest>> \o NewestFirst(store, ids \ {newest})

\* listJobs(1000) filtered to WAIT and RUN, in the order of the scan
activeList(store) == NewestFirst(store, activeJobs(store))

\* Promise.allSettled: what one promise of the batch settled to.  `kind` is
\* the answer the request got, `exit` and `threw` the path the call took.
Settled(o, resp) ==
    [status |-> IF o.exit = "raised" THEN "rejected" ELSE "fulfilled",
     value |-> o.ret, exit |-> o.exit, threw |-> o.threw, kind |-> resp.kind]

\* Mutant: every fulfilled promise counts as synced.
IsSynced_AnyFulfilled(r) == r.status = "fulfilled"

\* if (result.status === "fulfilled" && result.value) synced++; else failed++
IsSynced(r) == r.status = "fulfilled" /\ r.value

NoResults == [id \in {} |-> Settled(Outcome(EmptyStore, 0, FALSE, <<>>, "none", "none"),
                                    [kind |-> "ok"])]

\* One execution of syncAllJobs.  phase: "scan" (awaiting listJobs), "batch"
\* (awaiting Promise.allSettled), "delay" (awaiting the pause between two
\* batches), "returned".  outstanding: the jobs of the batch whose request
\* has not been answered.  exit: "empty", "done" or "caught" once returned.
\* Kept for the claims: activeAtScan (the ids of all rows that were WAIT or
\* RUN when the scan ran), requested and writes (the requests and the store
\* writes this execution issued), after (an execution that ended in a failure
\* had returned when this one started).
NewCycle(after) ==
    [phase |-> "scan", selected |-> <<>>, i |-> 0, outstanding |-> {},
     results |-> NoResults, synced |-> 0, failed |-> 0,
     ret |-> [synced |-> 0, failed |-> 0], exit |-> "none",
     activeAtScan |-> {}, requested |-> 0, writes |-> 0, after |-> after]

\* Mutant: the slice is one job longer than a batch.
Batch_OneMore(selected, i) ==
    {selected[k] : k \in {k \in 1..Len(selected) : i < k /\ k <= i + BATCH_SIZE + 1}}

\* activeJobs.slice(i, i + BATCH_SIZE), as a set
Batch(selected, i) ==
    {selected[k] : k \in {k \in 1..Len(selected) : i < k /\ k <= i + BATCH_SIZE}}

\* batch.map((job) => syncJobFromApi(job.id)): every request of the batch is
\* issued before the first answer is awaited.
StartBatch(c, i) ==
    LET batch == Batch(c.selected, i)
    IN [c EXCEPT !.phase = "batch", !.i = i, !.outstanding = batch,
                 !.requested = c.requested + Cardinality(batch)]

\* return { synced: 0, failed: 0 } of the empty scan and of the catch block
ReturnZero(c, exit) ==
    [c EXCEPT !.phase = "returned", !.exit = exit, !.ret = [synced |-> 0, failed |-> 0]]

\* Mutant: the try/catch of syncAllJobs is missing, so that a failure of
\* listJobs leaves the function as an exception.
ScanStep_Rethrow(c, store, fault) ==
    IF fault = "listJobs"
    THEN [c EXCEPT !.phase = "returned", !.exit = "raised"]
    ELSE LET sel == activeList(store)
             seen == [c EXCEPT !.selected = sel,
                               !.activeAtScan =
                                   {id \in DOMAIN store : store[id].status \in Active}]
         IN IF Len(sel) = 0 THEN ReturnZero(seen, "empty") ELSE StartBatch(seen, 0)

\* Lines 155-177, from the answer of listJobs to the first batch.
ScanStep(c, store, fault) ==
    IF fault = "listJobs"
    THEN ReturnZero(c, "caught")
    ELSE LET sel == activeList(store)
             seen == [c EXCEPT !.selected = sel,
                               !.activeAtScan =
                                   {id \in DOMAIN store : store[id].status \in Active}]
         IN IF Len(sel) = 0 THEN ReturnZero(seen, "empty") ELSE StartBatch(seen, 0)

\* Mutant: the pause follows every batch, the last one too.
TallyStep_PauseAfterLast(c) ==
    LET batch == Batch(c.selected, c.i)
        synced == c.synced + Cardinality({id \in batch : IsSynced(c.results[id])})
        failed == c.failed + Cardinality({id \in batch : ~IsSynced(c.results[id])})
    IN [c EXCEPT !.synced = synced, !.failed = failed, !.phase = "delay"]

\* Lines 179-194: the tally of a settled batch, then the pause or the return.
TallyStep(c) ==
    LET batch == Batch(c.selected, c.i)
        synced == c.synced + Cardinality({id \in batch : IsSynced(c.results[id])})
        failed == c.failed + Cardinality({id \in batch : ~IsSynced(c.results[id])})
        t == [c EXCEPT !.synced = synced, !.failed = failed]
    IN IF c.i + BATCH_SIZE < Len(c.selected)
       THEN [t EXCEPT !.phase = "delay"]
       ELSE [t EXCEPT !.phase = "returned", !.exit = "done",
                      !.ret = [synced |-> synced, failed |-> failed]]

\* The execution has returned from its catch block or has counted a job failed.
EndedInFailure(c) == c.phase = "returned" /\ (c.exit = "caught" \/ c.ret.failed > 0)

\* Mutant: the callback clears the interval when the cycle ended in a failure.
AfterCycle_ClearOnFailure(s, c) == [s EXCEPT !.armed = s.armed /\ ~EndedInFailure(c)]

\* server.ts lines 34-40: the callback ends; a failure is logged, no more.
AfterCycle(s, c) == s

Remove(seq, k) == SubSeq(seq, 1, k - 1) \o SubSeq(seq, k + 1, Len(seq))

ListFaults == {"none", "listJobs"}

\* setInterval fires: the callback calls syncAllJobs, whether or not an
\* earlier call is still in progress.
Tick ==
    /\ sched.armed
    /\ Len(cycles) < MaxCycles
    /\ cycles' = Append(cycles, NewCycle(\E k \in 1..Len(cycles) : EndedInFailure(cycles[k])))
    /\ UNCHANGED <<jobs, now, last, api, sched, probe, calls>>

\* syncAllJobs() called on its own, when no call is in progress.
Call ==
    /\ Len(cycles) = 0
    /\ cycles' = <<NewCycle(FALSE)>>
    /\ UNCHANGED <<jobs, now, last, api, sched, probe, calls>>

\* listJobs answers, or throws when `faults` allows it, and the first batch
\* is started.
ScanWith(faults) ==
    /\ \E k \in 1..Len(cycles), fault \in faults :
          /\ cycles[k].phase = "scan"
          /\ cycles' = [cycles EXCEPT ![k] = ScanStep(cycles[k], jobs, fault)]
    /\ UNCHANGED <<jobs, now, last, api, sched, probe, calls>>

Scan == ScanWith(ListFaults)

\* Mutant: the request carries no timer, so that a request the API never
\* answers stays pending.
RequestSettles_NoTimer(resp) == resp.kind # "abort"

\* syncJobFromApi lines 73-74: every request carries a timer that aborts it
\* after 10 s, so that it settles whether or not the API answers.
RequestSettles(resp) == TRUE

\* One request of the batch is answered and syncJobFromApi runs to its end;
\* a store call of it throws when `faults` allows it.
ReconcileWith(faults) ==
    \E k \in 1..Len(cycles) :
       \E id \in cycles[k].outstanding, fault \in faults :
          LET c == cycles[k]
              o == syncJobFromApi(jobs, now, id, api[id], fault)
          IN /\ c.phase = "batch"
             /\ RequestSettles(api[id])
             /\ o.now <= MaxClock
             /\ jobs' = o.jobs
             /\ now' = o.now
             /\ cycles' = [cycles EXCEPT ![k] =
                              [c EXCEPT !.outstanding = c.outstanding \ {id},
                                        !.results = c.results @@ (id :> Settled(o, api[id])),
                                        !.writes = c.writes + Len(o.writes)]]
             /\ UNCHANGED <<last, api, sched, probe, calls>>

Reconcile == ReconcileWith(SyncFaults)

\* Promise.allSettled resolves: the batch is tallied.
BatchEnd ==
    /\ \E k \in 1..Len(cycles) :
          /\ cycles[k].phase = "batch"
          /\ cycles[k].outstanding = {}
          /\ cycles' = [cycles EXCEPT ![k] = TallyStep(cycles[k])]
    /\ UNCHANGED <<jobs, now, last, api, sched, probe, calls>>

\* The pause of BATCH_DELAY_MS is over and the next batch is started.
NextBatch ==
    /\ \E k \in 1..Len(cycles) :
          /\ cycles[k].phase = "delay"
          /\ cycles' = [cycles EXCEPT ![k] = StartBatch(cycles[k], cycles[k].i + BATCH_SIZE)]
    /\ UNCHANGED <<jobs, now, last, api, sched, probe, calls>>

\* The caller of syncAllJobs takes its result.
Return ==
    /\ \E k \in 1..Len(cycles) :
          /\ cycles[k].phase = "returned"
          /\ cycles' = Remove(cycles, k)
          /\ sched' = AfterCycle(sched, cycles[k])
    /\ UNCHANGED <<jobs, now, last, api, probe, calls>>

\* SIGTERM or SIGINT: clearInterval(syncInterval)
Signal ==
    /\ sched.armed
    /\ sched' = [sched EXCEPT !.armed = FALSE, !.signalled = TRUE]
    /\ UNCHANGED <<jobs, now, last, api, cycles, probe, calls>>

\* ---------------------------------------------------------------- scenarios
\* The table a run starts from and the answers of the external API during it.
\* Rows are numbered from the oldest; a row of age a was created a ticks
\* before the run starts.
SeedRow(status, age) == [NewRow(Null, Null, Null, 0 - age) EXCEPT !.status = status]

SeedStore(statuses) ==
    [id \in 1..Len(statuses) |-> SeedRow(statuses[id], Len(statuses) - id)]

Reply(kind) == [kind |-> kind, body |-> NoBody]

ReplyOk(status, result, error) ==
    [kind |-> "ok", body |-> [status |-> status, result |-> result, error |-> error]]

Completed == ReplyOk("completed", <<MkResult(CdnGlb, Null, CdnPng, Null)>>, Null)

Scenario(store, answers) == [jobs |-> store, api |-> answers]

Scenarios(stores, replies) ==
    UNION {{Scenario(store, answers) : answers \in [DOMAIN store -> replies]} :
             store \in stores}

Statuses == {"WAIT", "RUN", "DONE", "FAIL"}

\* Tables of at most two rows, each job answered in one of eight ways.
SmallStores ==
    {SeedStore(<<>>)} \cup {SeedStore(<<a>>) : a \in Statuses}
    \cup {SeedStore(<<a, b>>) : a, b \in Statuses}

CallReplies ==
    {ReplyOk("pending", NoResult, Null), Completed, ReplyOk("failed", NoResult, <<"oom">>),
     Reply("http404"), Reply("abort"), Reply("http500"), Reply("neterr"), Reply("badjson")}

\* One row more than a batch holds is WAIT, under one DONE row that is the
\* oldest; the newest job is reported completed, the others pending, gone
\* or failing in turn.
BatchStore ==
    [id \in 1..(BATCH_SIZE + 2) |->
        SeedRow(IF id = 1 THEN "DONE" ELSE "WAIT", BATCH_SIZE + 2 - id)]

BatchAnswers ==
    [id \in 1..(BATCH_SIZE + 2) |->
        IF id = BATCH_SIZE + 2 THEN Completed
        ELSE IF id % 3 = 0 THEN Reply("http500")
        ELSE IF id % 3 = 1 THEN ReplyOk("pending", NoResult, Null)
        ELSE Reply("http404")]

\* One row more than the scan reads: the oldest is WAIT, all newer are DONE.
CrowdedStore ==
    [id \in 1..(LIST_LIMIT + 1) |->
        SeedRow(IF id = 1 THEN "WAIT" ELSE "DONE", LIST_LIMIT + 1 - id)]

CrowdedAnswers == [id \in 1..(LIST_LIMIT + 1) |-> Completed]

CallScenarios ==
    Scenarios(SmallStores, CallReplies)
    \cup {Scenario(BatchStore, BatchAnswers), Scenario(CrowdedStore, CrowdedAnswers),
          Scenario(SeedStore([id \in 1..BATCH_SIZE |-> "RUN"]),
                   [id \in 1..BATCH_SIZE |-> Reply("http404")])}

Start(scenarios, timer) ==
    /\ \E sc \in scenarios : jobs = sc.jobs /\ api = sc.api
    /\ now = 0
    /\ last = NoCall
    /\ sched = timer
    /\ cycles = <<>>
    /\ probe = NoProbe
    /\ calls = NoCalls

\* Calls of syncAllJobs, one after the other.
CallInit == Start(CallScenarios, NoTimer)

CallNext == Call \/ Scan \/ Reconcile \/ BatchEnd \/ NextBatch \/ Return

CallSpec == CallInit /\ [][CallNext]_vars

\* The timer of server.ts over tables of at most two rows.
TimerStores == {SeedStore(<<>>), SeedStore(<<"WAIT">>), SeedStore(<<"DONE", "RUN">>)}

TimerReplies == {Completed, Reply("http500"), Reply("abort")}

CycleScenarios == Scenarios(TimerStores, TimerReplies)

\* setInterval(..., config.pollIntervalMs) has been called.
Armed == [armed |-> TRUE, signalled |-> FALSE]

CycleInit == Start(CycleScenarios, Armed)

\* No table of the scenarios holds more active rows than one batch, so the
\* pause between two batches is never reached.
CycleNext == Tick \/ Scan \/ Reconcile \/ BatchEnd \/ Return \/ Signal

CycleSpec == CycleInit /\ [][CycleNext]_vars

\* The timer over a table of more than half a batch of RUN rows, whose
\* requests all run into the 10 s timeout.
SlowStore == [id \in 1..(BATCH_SIZE \div 2 + 1) |-> SeedRow("RUN", BATCH_SIZE - id)]

SlowAnswers == [id \in 1..(BATCH_SIZE \div 2 + 1) |-> Reply("abort")]

SlowInit == Start({Scenario(SlowStore, SlowAnswers)}, Armed)

SlowSpec == SlowInit /\ [][CycleNext]_vars

\* The timer while no signal comes, the store does not fail and every status
\* request is answered with a body: over tables with one active job, and
\* over the table with more rows than the scan reads.
ScanOk == ScanWith({"none"})

ReconcileOk == ReconcileWith({"none"})

FairReplies ==
    {ReplyOk("pending", NoResult, Null), Completed, ReplyOk("failed", NoResult, <<"oom">>)}

FairScenarios ==
    Scenarios({SeedStore(<<"WAIT">>), SeedStore(<<"RUN">>), SeedStore(<<"DONE", "RUN">>)},
              FairReplies)
    \cup {Scenario(CrowdedStore, CrowdedAnswers)}

FairInit == Start(FairScenarios, Armed)

FairNext == Tick \/ ScanOk \/ ReconcileOk \/ BatchEnd \/ Return

\* The timer keeps firing and the event loop resumes every await that can
\* be resumed.
FairCycleSpec ==
    /\ FairInit
    /\ [][FairNext]_vars
    /\ WF_vars(Tick) /\ WF_vars(ScanOk) /\ WF_vars(ReconcileOk)
    /\ WF_vars(BatchEnd) /\ WF_vars(Return)

\* Calls of syncAllJobs while the event loop resumes every await that can be
\* resumed: over the table of more than one batch, over six RUN jobs that
\* the API never answers, and over ten jobs of which the API answers none
\* but the newest.
FairCallSpec ==
    /\ Start({Scenario(BatchStore, BatchAnswers), Scenario(SlowStore, SlowAnswers),
              Scenario(SeedStore([id \in 1..BATCH_SIZE |-> "WAIT"]),
                       [id \in 1..BATCH_SIZE |->
                           IF id = BATCH_SIZE THEN Completed ELSE Reply("abort")])},
             NoTimer)
    /\ [][CallNext]_vars
    /\ WF_vars(Scan) /\ WF_vars(Reconcile) /\ WF_vars(BatchEnd) /\ WF_vars(NextBatch)

\* Calls of syncAllJobs that keep coming, while the event loop resumes every
\* await that can be resumed and listJobs succeeds; a store call of a
\* reconciliation may throw.  One job is active and reported pending,
\* completed or failed, or two are active and one of them is reported
\* completed while the other stays pending.
RetrySpec ==
    /\ Start(Scenarios({SeedStore(<<"WAIT">>), SeedStore(<<"RUN">>)}, FairReplies)
             \cup {Scenario(SeedStore(<<"WAIT", "RUN">>),
                            <<ReplyOk("pending", NoResult, Null), Completed>>),
                   Scenario(SeedStore(<<"RUN", "WAIT">>),
                            <<Completed, ReplyOk("pending", NoResult, Null)>>)},
             NoTimer)
    /\ [][Call \/ ScanOk \/ Reconcile \/ BatchEnd \/ Return]_vars
    /\ WF_vars(Call) /\ WF_vars(ScanOk) /\ WF_vars(Reconcile)
    /\ WF_vars(BatchEnd) /\ WF_vars(Return)

\* ------------------------------------------------------------ helper calls
\* The status mappers and the URL normalizers, called on their own.

\* A status field that is absent: no case label of the switch equals it.
MissingStatus == "undefined"

StatusInputs ==
    {"pending", "processing", "completed", "failed", "cancelled",
     "queued", "done", "error", "PENDING", "Completed", "", MissingStatus}

\* The longest URL, in tokens, that is built from UrlTokens.
MaxUrlLen == 3

UrlTokens == {"https://", S3Bucket, "/image/", "x.glb"}

RECURSIVE TextsUpTo(_)
TextsUpTo(n) ==
    IF n = 0 THEN {Empty}
    ELSE LET shorter == TextsUpTo(n - 1)
         IN shorter \cup {Append(t, tok) : t \in shorter, tok \in UrlTokens}

UrlInputs ==
    {Null} \cup TextsUpTo(MaxUrlLen) \cup {CdnGlb, CdnPng, MirrorGlb}
    \cup {getDirectS3GlbUrl(j) : j \in JobIds} \cup {getDirectS3PreviewUrl(j) : j \in JobIds}

Probe(fn, jobId, status, sync, route, url, out, again) ==
    [fn |-> fn, jobId |-> jobId, status |-> status, sync |-> sync, route |-> route,
     url |-> url, out |-> out, again |-> again]

\* convertStatus(s) of jobSync.ts and convertStatus(s) of routes/threeD.ts
ApplyConvertStatus ==
    /\ \E s \in StatusInputs :
          probe' = Probe("convertStatus", "", s, convertStatus(s), routeConvertStatus(s),
                         Null, Null, Null)
    /\ UNCHANGED <<jobs, now, last, api, sched, cycles, calls>>

\* normalizeGlbUrl(jobId, url), and the same call on what it returned
ApplyNormalizeGlbUrl ==
    /\ \E jobId \in JobIds, url \in UrlInputs :
          LET out == normalizeGlbUrl(jobId, url)
          IN probe' = Probe("normalizeGlbUrl", jobId, "", "", "", url, out,
                            normalizeGlbUrl(jobId, out))
    /\ UNCHANGED <<jobs, now, last, api, sched, cycles, calls>>

\* normalizePreviewUrl(jobId, url), and the same call on what it returned
ApplyNormalizePreviewUrl ==
    /\ \E jobId \in JobIds, url \in UrlInputs :
          LET out == normalizePreviewUrl(jobId, url)
          IN probe' = Probe("normalizePreviewUrl", jobId, "", "", "", url, out,
                            normalizePreviewUrl(jobId, out))
    /\ UNCHANGED <<jobs, now, last, api, sched, cycles, calls>>

\* A result payload in which each URL field is missing, "" or a URL of its own.
FieldUrl(name) == <<"https://", "cdn.example", "/tmp/", name>>

FieldValues(name) == {Null, Empty, FieldUrl(name)}

ResultInputs ==
    [mesh_url : FieldValues("mesh_url"), output : FieldValues("output"),
     processed_image_url : FieldValues("processed_image_url"),
     generated_image_url : FieldValues("generated_image_url"),
     processed_image : FieldValues("processed_image"),
     generated_image : FieldValues("generated_image"), prompt : {Null}]

\* The URLs syncJobFromApi (glbUrl, previewUrl) and the webhook (pushGlbUrl,
\* pushPreviewUrl) take from a result payload: the candidates, and what is
\* handed to updateJobResult.
ApplyCandidates ==
    /\ \E jobId \in {"J1"}, result \in ResultInputs :
          LET mesh == MeshCandidate(result)
              preview == PreviewCandidate(result)
          IN probe' = [fn |-> "candidates", jobId |-> jobId, result |-> result,
                       mesh |-> mesh, preview |-> preview,
                       glbUrl |-> normalizeGlbUrl(jobId, mesh),
                       previewUrl |-> normalizePreviewUrl(jobId, preview),
                       pushGlbUrl |-> Or(mesh, Null),
                       pushPreviewUrl |-> Or(preview, Null)]
    /\ UNCHANGED <<jobs, now, last, api, sched, cycles, calls>>

HelperNext ==
    ApplyConvertStatus \/ ApplyNormalizeGlbUrl \/ ApplyNormalizePreviewUrl \/ ApplyCandidates

HelperSpec == Init /\ [][HelperNext]_vars

\* ------------------------------------------------------------ the routes
\* The handlers of the router and syncJobFromApi, called one after the other
\* on a table that already holds jobs in the states the handlers leave them.
RouteUsers == {Null, <<"u1">>, <<"u2">>}

\* A job of u1 just created; a job registered without a token; a job of u1
\* reconciled to DONE; a job without owner reconciled to FAIL.
RouteRows(id) ==
    { NewRow(<<"u1">>, Prompt, Null, 0),
      NewRow(Null, Null, Null, 0),
      [NewRow(<<"u1">>, Prompt, Null, 0) EXCEPT
          !.status = "DONE", !.resultGlbUrl = getDirectS3GlbUrl(id),
          !.previewImageUrl = getDirectS3PreviewUrl(id)],
      [NewRow(Null, Null, Null, 0) EXCEPT !.status = "FAIL", !.errorMessage = <<"oom">>] }

\* The empty table, J1 in each of the four states, and J1 beside a J2 that
\* is still WAIT.
RouteStores ==
    {EmptyStore}
    \cup {("J1" :> a) : a \in RouteRows("J1")}
    \cup {("J1" :> a) @@ ("J2" :> b) :
             a \in RouteRows("J1"), b \in {r \in RouteRows("J2") : r.status = "WAIT"}}

RouteResponses ==
    {ReplyOk("processing", NoResult, Null), Completed,
     ReplyOk("failed", NoResult, Null), Reply("http404"), Reply("neterr")}

RouteInit ==
    /\ jobs \in RouteStores
    /\ now = 0
    /\ last = NoCall
    /\ api = NoApi
    /\ sched = NoTimer
    /\ cycles = <<>>
    /\ probe = NoProbe
    /\ calls = NoCalls

\* syncJobFromApi(jobId)
Poll ==
    /\ last.op = "none"
    /\ \E jobId \in JobIds, resp \in RouteResponses :
          Apply("sync", jobId, resp, Null,
                syncJobFromApi(jobs, now, jobId, resp, "none"), FALSE)

\* POST /webhook/job-update
Deliver ==
    /\ last.op = "none"
    /\ \E job_id \in JobIds, resp \in {r \in RouteResponses : r.kind = "ok"} :
          Apply("push", job_id, resp, Null,
                webhookJobUpdate(jobs, now, job_id, resp.body, Null, "none"), FALSE)

\* GET /status/:jobId, with or without a token
GetStatus ==
    /\ last.op = "none"
    /\ \E jobId \in JobIds, userId \in RouteUsers, resp \in RouteResponses,
          fault \in {"none", "getJob", "updateJobStatus"} :
          Apply("getStatus", jobId, resp, userId,
                getStatus(jobs, now, jobId, userId, resp, fault), FALSE)

\* GET /result/:jobId, with or without a token
GetResult ==
    /\ last.op = "none"
    /\ \E jobId \in JobIds, userId \in RouteUsers, resp \in RouteResponses,
          fault \in {"none", "updateJobResult"} :
          Apply("getResult", jobId, resp, userId,
                getResult(jobs, now, jobId, userId, resp, fault), FALSE)

\* POST /register-job, with or without a token
Register ==
    /\ last.op = "none"
    /\ \E job_id \in JobIds \cup {""}, userId \in RouteUsers,
          fault \in {"none", "getJob", "createJob", "setJobOwner"} :
          Apply("register", job_id, Reply("ok"), userId,
                registerJob(jobs, now, job_id, userId, Prompt, fault), FALSE)

\* DELETE /jobs/:jobId, with or without a token
Delete ==
    /\ last.op = "none"
    /\ \E jobId \in JobIds, userId \in RouteUsers, fault \in {"none", "getJob", "deleteJob"} :
          Apply("delete", jobId, Reply("ok"), userId,
                deleteJobRoute(jobs, now, jobId, userId, fault), FALSE)

RouteNext ==
    Poll \/ Deliver \/ GetStatus \/ GetResult \/ Generate \/ Register \/ Delete \/ Settle

RouteSpec == RouteInit /\ [][RouteNext]_vars

\* The reconciler alone: calls of syncJobFromApi and push deliveries.
EngineNext == Poll \/ Deliver \/ Settle

EngineSpec == RouteInit /\ [][EngineNext]_vars

\* -------------------------------------------------------------------- races
\* One call of syncJobFromApi and one delivery to the webhook for the same
\* job, each followed from one await to the next, while the job makes
\* progress at the external API.
RaceJob == "J1"

\* The external API moves a job from pending to processing, and from there
\* to completed or to failed.
Successors(status) ==
    CASE status = "pending" -> {ReplyOk("processing", NoResult, Null)}
      [] status = "processing" -> {Completed, ReplyOk("failed", NoResult, <<"oom">>)}
      [] OTHER -> {}

\* A call in progress.  pc: the await it is at.  body: the payload it fetched
\* or was sent.  dbJob: <<row>> once getJob has answered with the row.
NewCall(op, jobId, pc) ==
    [op |-> op, job |-> jobId, pc |-> pc, body |-> NoBody, dbJob |-> <<>>,
     ret |-> FALSE, writes |-> <<>>]

RaceStores ==
    {EmptyStore,
     (RaceJob :> NewRow(<<"u1">>, Prompt, Null, 0)),
     (RaceJob :> [NewRow(<<"u1">>, Prompt, Null, 0) EXCEPT !.status = "RUN"])}

RaceInit ==
    /\ jobs \in RaceStores
    /\ now = 0
    /\ last = NoCall
    /\ api \in {(RaceJob :> ReplyOk(st, NoResult, Null)) : st \in {"pending", "processing"}}
    /\ sched = NoTimer
    /\ cycles = <<>>
    /\ probe = NoProbe
    /\ calls = [poll |-> NewCall("sync", RaceJob, "fetch"),
                push |-> NewCall("push", RaceJob, "send")]

\* The call `c` is at the await `pc` of the handler `op`.
At(c, op, pc) == calls[c].op = op /\ calls[c].pc = pc

\* The call goes on to its next await, having issued the write `w` (a result
\* of the repository, or the table as it is when it issued none).
Resume(c, pc, ret, w, name) ==
    /\ jobs' = w.jobs
    /\ now' = w.now
    /\ calls' = [calls EXCEPT ![c] =
                    [@ EXCEPT !.pc = pc, !.ret = ret,
                              !.writes = IF name = "" THEN @ ELSE Append(@, name)]]
    /\ UNCHANGED <<last, api, sched, cycles, probe>>

NoWrite == [jobs |-> jobs, now |-> now]

\* The job makes progress at the external API.
Advance ==
    /\ \E id \in DOMAIN api : \E r \in Successors(api[id].body.status) :
          api' = [api EXCEPT ![id] = r]
    /\ UNCHANGED <<jobs, now, last, sched, cycles, probe, calls>>

\* syncJobFromApi lines 76-99: the fetch is answered and the body is parsed.
PollFetch ==
    \E c \in DOMAIN calls :
       /\ At(c, "sync", "fetch")
       /\ LET resp == api[calls[c].job]
          IN calls' = [calls EXCEPT ![c] =
                          IF FetchExit(resp) = "ok"
                          THEN [@ EXCEPT !.pc = "read", !.body = resp.body]
                          ELSE [@ EXCEPT !.pc = "done"]]
       /\ UNCHANGED <<jobs, now, last, api, sched, cycles, probe>>

\* syncJobFromApi lines 102-106: getJob answers.
PollRead ==
    \E c \in DOMAIN calls :
       /\ At(c, "sync", "read")
       /\ calls' = [calls EXCEPT ![c] =
                       IF calls[c].job \in DOMAIN jobs
                       THEN [@ EXCEPT !.pc = "status", !.dbJob = <<jobs[calls[c].job]>>]
                       ELSE [@ EXCEPT !.pc = "done"]]
       /\ UNCHANGED <<jobs, now, last, api, sched, cycles, probe>>

\* syncJobFromApi lines 109-119: the status is compared with the row that
\* getJob returned, and written when it differs.
PollStatus ==
    \E c \in DOMAIN calls :
       /\ At(c, "sync", "status")
       /\ LET call == calls[c]
              dbStatus == convertStatus(call.body.status)
          IN IF StatusChanged(call.dbJob[1], dbStatus)
             THEN Resume(c, "result", FALSE,
                         updateJobStatus(jobs, now, call.job, dbStatus, Null,
                                         Or(call.body.error, Null)),
                         "updateJobStatus")
             ELSE Resume(c, "result", FALSE, NoWrite, "")

\* Mutant: the result is stored by writing back the whole row that getJob
\* returned, with the new URLs.
PollResult_WholeRow ==
    \E c \in DOMAIN calls :
       /\ At(c, "sync", "result")
       /\ LET call == calls[c]
          IN IF call.body.status = "completed" /\ call.body.result # NoResult
             THEN LET result == call.body.result[1]
                      glbUrl == normalizeGlbUrl(call.job, MeshCandidate(result))
                      previewUrl == normalizePreviewUrl(call.job, PreviewCandidate(result))
                  IN IF ResultChanged(call.dbJob[1], glbUrl, previewUrl)
                     THEN Resume(c, "done", TRUE,
                                 [jobs |-> [jobs EXCEPT ![call.job] =
                                              [call.dbJob[1] EXCEPT
                                                  !.resultGlbUrl = glbUrl,
                                                  !.previewImageUrl = previewUrl,
                                                  !.updatedAt = now + 1]],
                                  now |-> now + 1],
                                 "updateJobResult")
                     ELSE Resume(c, "done", TRUE, NoWrite, "")
             ELSE Resume(c, "done", TRUE, NoWrite, "")

\* syncJobFromApi lines 122-144: the result URLs are compared with the row
\* that getJob returned, and written when they differ.
PollResult ==
    \E c \in DOMAIN calls :
       /\ At(c, "sync", "result")
       /\ LET call == calls[c]
          IN IF call.body.status = "completed" /\ call.body.result # NoResult
             THEN LET result == call.body.result[1]
                      glbUrl == normalizeGlbUrl(call.job, MeshCandidate(result))
                      previewUrl == normalizePreviewUrl(call.job, PreviewCandidate(result))
                  IN IF ResultChanged(call.dbJob[1], glbUrl, previewUrl)
                     THEN Resume(c, "done", TRUE,
                                 updateJobResult(jobs, now, call.job, glbUrl, previewUrl),
                                 "updateJobResult")
                     ELSE Resume(c, "done", TRUE, NoWrite, "")
             ELSE Resume(c, "done", TRUE, NoWrite, "")

\* The external API sends the notification of the state the job is in.
PushSend ==
    \E c \in DOMAIN calls :
       /\ At(c, "push", "send")
       /\ calls' = [calls EXCEPT ![c] =
                       [@ EXCEPT !.pc = "read", !.body = api[calls[c].job].body]]
       /\ UNCHANGED <<jobs, now, last, api, sched, cycles, probe>>

\* POST /webhook/job-update lines 459-460: getJob answers.
PushRead ==
    \E c \in DOMAIN calls :
       /\ At(c, "push", "read")
       /\ calls' = [calls EXCEPT ![c] =
                       [@ EXCEPT !.pc = IF calls[c].job \in DOMAIN jobs
                                        THEN "status" ELSE "create"]]
       /\ UNCHANGED <<jobs, now, last, api, sched, cycles, probe>>

\* POST /webhook/job-update lines 461-476: the insert, which fails when the
\* id has become a primary key in the meantime.
PushCreate ==
    \E c \in DOMAIN calls :
       /\ At(c, "push", "create")
       /\ LET call == calls[c]
          IN IF call.job \in DOMAIN jobs
             THEN Resume(c, "done", FALSE, NoWrite, "")
             ELSE Resume(c, "status", FALSE,
                         createJob(jobs, now, call.job, Null,
                                   IF call.body.result # NoResult
                                   THEN Or(call.body.result[1].prompt, Null) ELSE Null,
                                   Null),
                         "createJob")

\* POST /webhook/job-update lines 478-483
PushStatus ==
    \E c \in DOMAIN calls :
       /\ At(c, "push", "status")
       /\ Resume(c, "result", FALSE,
                 updateJobStatus(jobs, now, calls[c].job,
                                 routeConvertStatus(calls[c].body.status), Null,
                                 Or(calls[c].body.error, Null)),
                 "updateJobStatus")

\* POST /webhook/job-update lines 485-494
PushResult ==
    \E c \in DOMAIN calls :
       /\ At(c, "push", "result")
       /\ LET call == calls[c]
          IN IF call.body.status = "completed" /\ call.body.result # NoResult
             THEN LET result == call.body.result[1]
                  IN Resume(c, "done", TRUE,
                            updateJobResult(jobs, now, call.job,
                                            Or(MeshCandidate(result), Null),
                                            Or(PreviewCandidate(result), Null)),
                            "updateJobResult")
             ELSE Resume(c, "done", TRUE, NoWrite, "")

RaceNext ==
    \/ Advance
    \/ PollFetch \/ PollRead \/ PollStatus \/ PollResult
    \/ PushSend \/ PushRead \/ PushCreate \/ PushStatus \/ PushResult

RaceSpec == RaceInit /\ [][RaceNext]_vars

\* Calls in progress for the job RaceJob, over one of the tables `stores`
\* (kept in last.before), while the external API gives one of `answers`.
RaceStart(stores, answers, slots) ==
    /\ jobs \in stores
    /\ now = 0
    /\ last = [NoCall EXCEPT !.before = jobs]
    /\ api \in {(RaceJob :> a) : a \in answers}
    /\ sched = NoTimer
    /\ cycles = <<>>
    /\ probe = NoProbe
    /\ calls = slots

\* Two deliveries to the webhook for a job that has no record, each followed
\* from one await to the next.
PushRaceSpec ==
    /\ RaceStart({EmptyStore},
                 {ReplyOk("pending", NoResult, Null), ReplyOk("processing", NoResult, Null)},
                 [first |-> NewCall("push", RaceJob, "send"),
                  second |-> NewCall("push", RaceJob, "send")])
    /\ [][Advance \/ PushSend \/ PushRead \/ PushCreate \/ PushStatus \/ PushResult]_vars

\* POST /register-job line 406: getJob answers.
RegisterRead ==
    \E c \in DOMAIN calls :
       /\ At(c, "register", "read")
       /\ calls' = [calls EXCEPT ![c] =
                       IF calls[c].job \in DOMAIN jobs
                       THEN [@ EXCEPT !.pc = "owner", !.dbJob = <<jobs[calls[c].job]>>]
                       ELSE [@ EXCEPT !.pc = "create"]]
       /\ UNCHANGED <<jobs, now, last, api, sched, cycles, probe>>

\* POST /register-job lines 407-421: the owner is written when the row that
\* getJob returned had none and the request carries a user; the update
\* selects the row by id alone.
RegisterOwner ==
    \E c \in DOMAIN calls :
       /\ At(c, "register", "owner")
       /\ IF ~Truthy(calls[c].dbJob[1].userId) /\ Truthy(calls[c].user)
          THEN Resume(c, "done", TRUE,
                      setJobOwner(jobs, now, calls[c].job, calls[c].user), "setJobOwner")
          ELSE Resume(c, "done", TRUE, NoWrite, "")

\* POST /register-job lines 423-435: the insert, which fails when the id has
\* become a primary key in the meantime.
RegisterCreate ==
    \E c \in DOMAIN calls :
       /\ At(c, "register", "create")
       /\ IF calls[c].job \in DOMAIN jobs
          THEN Resume(c, "done", FALSE, NoWrite, "")
          ELSE Resume(c, "done", TRUE,
                      createJob(jobs, now, calls[c].job, Or(calls[c].user, Null),
                                Prompt, Null),
                      "createJob")

\* POST /register-job from two users for the same job, each followed from
\* one await to the next, beside a call of syncJobFromApi for that job.  The
\* job has no record, or a record without owner, or a record of u1.
RegisterRaceSpec ==
    /\ RaceStart({EmptyStore,
                  (RaceJob :> NewRow(Null, Null, Null, 0)),
                  (RaceJob :> NewRow(<<"u1">>, Prompt, Null, 0))},
                 {ReplyOk("processing", NoResult, Null), Completed},
                 [first |-> NewCall("register", RaceJob, "read") @@ [user |-> <<"u1">>],
                  second |-> NewCall("register", RaceJob, "read") @@ [user |-> <<"u2">>],
                  poll |-> NewCall("sync", RaceJob, "fetch")])
    /\ [][RegisterRead \/ RegisterOwner \/ RegisterCreate
          \/ PollFetch \/ PollRead \/ PollStatus \/ PollResult]_vars

\* Two calls of syncJobFromApi for the same job (two executions of
\* syncAllJobs that overlap), each followed from one await to the next, while
\* the external API keeps giving the same answer.  The job has no record, is
\* WAIT or RUN, or is DONE with both URLs stored; the answer is processing,
\* failed, completed with both URLs or completed with a mesh only.
PollRaceSpec ==
    /\ RaceStart(RaceStores
                 \cup {(RaceJob :> [NewRow(<<"u1">>, Prompt, Null, 0) EXCEPT
                          !.status = "DONE",
                          !.resultGlbUrl = getDirectS3GlbUrl(RaceJob),
                          !.previewImageUrl = getDirectS3PreviewUrl(RaceJob)])},
                 {ReplyOk("processing", NoResult, Null), Completed,
                  ReplyOk("completed", <<MkResult(Empty, MirrorGlb, Null, Null)>>, Null),
                  ReplyOk("failed", NoResult, <<"oom">>)},
                 [first |-> NewCall("sync", RaceJob, "fetch"),
                  second |-> NewCall("sync", RaceJob, "fetch")])
    /\ [][PollFetch \/ PollRead \/ PollStatus \/ PollResult]_vars

\* ================================================================== claims
\* What a record holds of the job's state: status, error fields, result URLs.
Stored(r) == <<r.status, r.errorCode, r.errorMessage, r.resultGlbUrl, r.previewImageUrl>>

SyncDone == last.op = "sync"
PushDone == last.op = "push"
ApiJob == last.resp.body
HadRecord == last.job \in DOMAIN last.before
Wrote(name) == \E i \in 1..Len(last.writes) : last.writes[i] = name

\* The call fetched a body and read the stored record.
SyncCompared == SyncDone /\ last.resp.kind = "ok" /\ last.threw # "getJob" /\ HadRecord

\* The URL lies in the configured bucket and region under /image/<jobId>/.
IsCanonicalFor(jobId, url) ==
    /\ Len(url) >= 7
    /\ SubSeq(url, 1, 7) =
         <<"https://", S3Bucket, ".s3.", S3Region, ".amazonaws.com", "/image/", jobId>>

\* C1 (as claimed): a call of syncJobFromApi that finds the stored status FAIL
\* or DONE leaves the stored status as it found it.
C1_TerminalUnderPolling ==
    (SyncDone /\ HadRecord /\ last.before[last.job].status \in Terminal)
        => jobs[last.job].status = last.before[last.job].status

\* C2 (as claimed): a push delivery that finds the stored status DONE or FAIL
\* leaves the stored status as it found it.
C2_TerminalUnderPush ==
    (PushDone /\ HadRecord /\ last.before[last.job].status \in Terminal)
        => jobs[last.job].status = last.before[last.job].status

\* C3: when syncJobFromApi is called again for the same job with the same
\* external response (the first call not cut short by a store failure), the
\* second call issues no write and leaves the whole table, updatedAt
\* included, as the first call left it.
C3_ReconcilerIdempotent ==
    (SyncDone /\ last.repeat) => (last.writes = <<>> /\ jobs = last.before)

C3_Witness ==
    /\ SyncDone /\ last.repeat /\ last.ret
    /\ ApiJob.status = "completed" /\ ApiJob.result # NoResult
    /\ jobs[last.job].status = "DONE"
    /\ jobs[last.job].resultGlbUrl # Null
    /\ jobs[last.job].previewImageUrl # Null

\* The normalized URLs of a completed response differ from the stored ones.
ResultDiffers ==
    /\ ApiJob.status = "completed" /\ ApiJob.result # NoResult
    /\ \/ last.before[last.job].resultGlbUrl #
            normalizeGlbUrl(last.job, MeshCandidate(ApiJob.result[1]))
       \/ last.before[last.job].previewImageUrl #
            normalizePreviewUrl(last.job, PreviewCandidate(ApiJob.result[1]))

\* C4 (as claimed): syncJobFromApi writes the status only when the mapped
\* status differs from the stored one, and when they are equal it performs
\* no store write at all, leaves the record as it was and returns true.
C4_EqualStatusNoWrite ==
    /\ (SyncDone /\ Wrote("updateJobStatus"))
          => (HadRecord /\ convertStatus(ApiJob.status) # last.before[last.job].status)
    /\ (SyncCompared /\ convertStatus(ApiJob.status) = last.before[last.job].status)
          => (last.writes = <<>> /\ jobs = last.before /\ last.ret)

\* C4 (amended): syncJobFromApi writes the status only when the mapped status
\* differs from the stored one; when they are equal, and the response is not a
\* completed one whose normalized result URLs differ from the stored ones, the
\* call performs no store write, leaves the record (updatedAt included) as it
\* was and returns true.
C4_DiffBeforeWrite ==
    /\ (SyncDone /\ Wrote("updateJobStatus"))
          => (HadRecord /\ convertStatus(ApiJob.status) # last.before[last.job].status)
    /\ (SyncCompared /\ convertStatus(ApiJob.status) = last.before[last.job].status
          /\ ~ResultDiffers)
          => (last.writes = <<>> /\ jobs = last.before /\ last.ret)

C4_Witness ==
    /\ SyncCompared /\ ~last.repeat
    /\ ApiJob.status = "pending" /\ last.before[last.job].status = "WAIT"
    /\ last.ret /\ last.writes = <<>>
    /\ jobs[last.job].updatedAt = last.before[last.job].updatedAt

\* C5 (as claimed): a push delivery that runs to its end on an existing record
\* leaves the status, error fields and result URLs that syncJobFromApi leaves
\* when it is given the same payload on the same record.
C5_PushPollEquivalence ==
    (PushDone /\ last.ret /\ HadRecord)
        => Stored(jobs[last.job]) =
             Stored(syncJobFromApi(last.before, 0, last.job, last.resp, "none").jobs[last.job])

\* C6: a notification delivered a second time leaves the status, error fields
\* and result URLs of every record as the first delivery left them; for
\* {status: "failed", error: "oom"} that is status FAIL and errorMessage "oom".
C6_PushDuplicateIdempotent ==
    (PushDone /\ last.repeat) =>
        /\ DOMAIN jobs = DOMAIN last.before
        /\ \A id \in DOMAIN jobs : Stored(jobs[id]) = Stored(last.before[id])
        /\ (last.job # "" /\ ApiJob.status = "failed" /\ ApiJob.error = <<"oom">>)
              => /\ jobs[last.job].status = "FAIL"
                 /\ jobs[last.job].errorMessage = <<"oom">>

C6_Witness ==
    /\ PushDone /\ last.repeat /\ last.ret
    /\ ApiJob.status = "failed" /\ ApiJob.error = <<"oom">>
    /\ last.writes = <<"updateJobStatus">>
    /\ jobs[last.job].status = "FAIL"
    /\ jobs[last.job].errorMessage = <<"oom">>

\* C7 (as claimed): when syncJobFromApi returns true on a completed response,
\* the stored status is DONE, and a mesh URL (preview URL) of the result that
\* is not canonical for the job is stored as the URL derived from the job id.
C7_CanonicalUrlPersisted ==
    (SyncDone /\ last.ret /\ ApiJob.status = "completed" /\ ApiJob.result # NoResult) =>
        LET mesh == MeshCandidate(ApiJob.result[1])
            preview == PreviewCandidate(ApiJob.result[1])
        IN /\ jobs[last.job].status = "DONE"
           /\ (Truthy(mesh) /\ ~IsCanonicalFor(last.job, mesh))
                 => jobs[last.job].resultGlbUrl = getDirectS3GlbUrl(last.job)
           /\ (Truthy(preview) /\ ~IsCanonicalFor(last.job, preview))
                 => jobs[last.job].previewImageUrl = getDirectS3PreviewUrl(last.job)

\* C8: when the API answers 404, syncJobFromApi returns false from the 404
\* branch (nothing is thrown or caught), issues no store write and leaves the
\* table, the set of records included, as it was.
C8_Upstream404 ==
    (SyncDone /\ last.resp.kind = "http404") =>
        /\ ~last.ret /\ last.exit = "apiNotFound" /\ last.threw = "none"
        /\ last.writes = <<>>
        /\ jobs = last.before

C8_Witness ==
    /\ SyncDone /\ last.resp.kind = "http404" /\ ~last.ret
    /\ HadRecord /\ last.before[last.job].status = "RUN"
    /\ \E id \in JobIds : id \notin DOMAIN jobs

C10_MissingRecord ==
    SyncDone =>
        /\ DOMAIN jobs = DOMAIN last.before
        /\ ~HadRecord => (~last.ret /\ last.writes = <<>> /\ jobs = last.before)

C10_Witness ==
    /\ SyncDone /\ last.resp.kind = "ok" /\ last.exit = "dbNotFound"
    /\ ~HadRecord /\ last.job \notin DOMAIN jobs
    /\ DOMAIN jobs # {}

\* C19: convertStatus maps pending to WAIT, processing to RUN, completed to
\* DONE, failed and cancelled to FAIL, and every other input, an absent status
\* included, to WAIT; it always yields one of the four states; the mapper of
\* the reconciler and the mapper of the router give the same state.
C19_StatusMapper ==
    (probe.fn = "convertStatus") =>
        /\ probe.sync \in {"WAIT", "RUN", "DONE", "FAIL"}
        /\ probe.sync =
             (IF probe.status = "pending" THEN "WAIT"
              ELSE IF probe.status = "processing" THEN "RUN"
              ELSE IF probe.status = "completed" THEN "DONE"
              ELSE IF probe.status \in {"failed", "cancelled"} THEN "FAIL"
              ELSE "WAIT")
        /\ (probe.status \notin {"completed", "failed", "cancelled"})
              => probe.sync \notin {"FAIL", "DONE"}
        /\ probe.route = probe.sync

C19_Witness ==
    /\ probe.fn = "convertStatus"
    /\ probe.status = MissingStatus
    /\ probe.sync = "WAIT" /\ probe.route = "WAIT"

\* C20: normalizeGlbUrl and normalizePreviewUrl return null for an absent
\* URL (null or ""), return a URL that is canonical for the job unchanged,
\* and applied to their own result return that result.
C20_NormalizerStable ==
    (probe.fn \in {"normalizeGlbUrl", "normalizePreviewUrl"}) =>
        /\ ~Truthy(probe.url) => probe.out = Null
        /\ IsCanonicalFor(probe.jobId, probe.url) => probe.out = probe.url
        /\ probe.again = probe.out

C20_Witness ==
    /\ probe.fn = "normalizeGlbUrl"
    /\ Truthy(probe.url) /\ ~PointsToOurBucket(probe.url)
    /\ probe.out = getDirectS3GlbUrl(probe.jobId)
    /\ probe.again = probe.out

\* The jobs an execution of syncAllJobs selected, as a set.
SelectedSet(c) == {c.selected[j] : j \in 1..Len(c.selected)}

\* The jobs of the batches started so far.
StartedSet(c) == {c.selected[j] : j \in {j \in 1..Len(c.selected) : j <= c.i + BATCH_SIZE}}

\* C11: a call of syncJobFromApi whose fetch failed (transport error, an
\* error status other than 404, an unparsable body) or in which a store call
\* threw settles as fulfilled with false, through the catch block; and every
\* job of a batch is awaiting its answer or has been reconciled, whatever
\* became of the other jobs of the batch.
C11_FailureContained ==
    \A k \in 1..Len(cycles) :
        LET c == cycles[k]
        IN /\ \A id \in DOMAIN c.results :
                 LET r == c.results[id]
                 IN (r.kind \in {"http500", "neterr", "badjson"} \/ r.threw # "none")
                       => (r.status = "fulfilled" /\ ~r.value /\ r.exit = "caught")
           /\ c.phase = "batch"
                 => StartedSet(c) = c.outstanding \cup DOMAIN c.results
           /\ c.phase = "delay" => StartedSet(c) = DOMAIN c.results

C11_Witness ==
    \E k \in 1..Len(cycles) :
        \E a, b, d \in DOMAIN cycles[k].results :
            /\ cycles[k].results[a].kind = "http500"
            /\ cycles[k].results[a].exit = "caught"
            /\ cycles[k].results[b].threw = "getJob"
            /\ ~cycles[k].results[b].value
            /\ cycles[k].results[d].value

\* C12: when syncAllJobs returns, every job it selected has been reconciled,
\* synced is the number of selected jobs whose reconciliation returned true,
\* failed the number whose reconciliation returned false or raised, and the
\* two add up to the number of selected jobs.
C12_BatchAggregation ==
    \A k \in 1..Len(cycles) :
        LET c == cycles[k]
        IN c.phase = "returned" =>
              /\ DOMAIN c.results = SelectedSet(c)
              /\ c.ret.synced =
                   Cardinality({id \in SelectedSet(c) :
                                  c.results[id].status = "fulfilled" /\ c.results[id].value})
              /\ c.ret.failed =
                   Cardinality({id \in SelectedSet(c) :
                                  c.results[id].status = "rejected" \/ ~c.results[id].value})
              /\ c.ret.synced + c.ret.failed = Len(c.selected)

C12_Witness ==
    \E k \in 1..Len(cycles) :
        /\ cycles[k].phase = "returned"
        /\ Len(cycles[k].selected) > BATCH_SIZE
        /\ cycles[k].ret.synced > 1
        /\ cycles[k].ret.failed > 1
        /\ \E id \in DOMAIN cycles[k].results : cycles[k].results[id].exit = "caught"

\* The executions of syncAllJobs that have not returned.
InProgress == {k \in 1..Len(cycles) : cycles[k].phase # "returned"}

RECURSIVE OutstandingFrom(_)
OutstandingFrom(k) ==
    IF k > Len(cycles) THEN 0
    ELSE Cardinality(cycles[k].outstanding) + OutstandingFrom(k + 1)

\* C13 (as claimed): at most one execution of syncAllJobs is in progress.
C13_NoOverlappingCycles == Cardinality(InProgress) <= 1

\* C14 (as claimed): the status requests the reconciliation loop has
\* outstanding are at most BATCH_SIZE.
C14_BoundedFanOut == OutstandingFrom(1) <= BATCH_SIZE

\* C18: the timer is cleared by SIGTERM or SIGINT and by nothing else: as
\* long as no signal has come it is armed, also after an execution of
\* syncAllJobs that ended in its catch block or counted failed jobs, and its
\* next firing starts another execution.
C18_ScheduleSurvives ==
    /\ sched.armed = ~sched.signalled
    /\ (~sched.signalled /\ Len(cycles) < MaxCycles) => ENABLED Tick

C18_Witness ==
    /\ sched.armed
    /\ \E k, f \in 1..Len(cycles) :
          /\ cycles[f].phase = "returned" /\ cycles[f].exit = "caught"
          /\ cycles[k].after
          /\ cycles[k].phase = "returned"
          /\ cycles[k].ret.failed > 0

\* C15 (as claimed): an execution of syncAllJobs whose scan succeeded selects
\* only jobs that were WAIT or RUN when the scan ran, selects all of them
\* when they are no more than the scan limit, never more than the scan
\* limit, and reconciles none but the selected ones.
C15_ActiveSelection ==
    \A k \in 1..Len(cycles) :
        LET c == cycles[k]
        IN (c.phase # "scan" /\ c.exit # "caught") =>
              /\ SelectedSet(c) \subseteq c.activeAtScan
              /\ Cardinality(c.activeAtScan) <= LIST_LIMIT => SelectedSet(c) = c.activeAtScan
              /\ Len(c.selected) <= LIST_LIMIT
              /\ DOMAIN c.results \subseteq SelectedSet(c)

\* C17: an execution of syncAllJobs whose scan succeeded and found no job
\* WAIT or RUN returns {synced: 0, failed: 0}, having issued no request to
\* the external API and no store write.
C17_EmptyCycle ==
    \A k \in 1..Len(cycles) :
        LET c == cycles[k]
        IN (c.phase = "returned" /\ c.exit # "caught"
              /\ (c.exit = "empty" \/ c.activeAtScan = {})) =>
              /\ c.ret = [synced |-> 0, failed |-> 0]
              /\ c.requested = 0
              /\ c.writes = 0
              /\ DOMAIN c.results = {}

C17_Witness ==
    \E k \in 1..Len(cycles) :
        /\ cycles[k].phase = "returned" /\ cycles[k].exit = "empty"
        /\ cycles[k].ret = [synced |-> 0, failed |-> 0]
        /\ cycles[k].requested = 0
        /\ \E id \in DOMAIN jobs : jobs[id].status = "DONE"
        /\ \E id \in DOMAIN jobs : jobs[id].status = "FAIL"

IsActive(id) == id \in DOMAIN jobs /\ jobs[id].status \in Active

HasStatus(id, status) == id \in DOMAIN jobs /\ jobs[id].status = status

\* The external API answers the status request of the job with this status.
Reported(id, status) ==
    id \in DOMAIN api /\ api[id].kind = "ok" /\ api[id].body.status = status

\* Some execution of syncAllJobs in progress has reconciled the job.
Reconciled(id) == \E k \in 1..Len(cycles) : id \in DOMAIN cycles[k].results

\* C16 (as claimed): while the timer keeps firing and fetches and store calls
\* succeed, a job that is WAIT or RUN is eventually reconciled by an
\* execution of syncAllJobs (or is no longer WAIT or RUN); if the API reports
\* it completed, its stored status eventually is DONE, and if the API
\* reports it failed, FAIL.
C16_EventualReconciliation ==
    \A id \in 1..2 :
        /\ IsActive(id) ~> (Reconciled(id) \/ ~IsActive(id))
        /\ (IsActive(id) /\ Reported(id, "completed")) ~> HasStatus(id, "DONE")
        /\ (IsActive(id) /\ Reported(id, "failed")) ~> HasStatus(id, "FAIL")

\* C21 (as claimed): for a candidate URL that is not absent, the normalizer
\* returns the candidate unchanged only if it lies in the configured bucket
\* and region under /image/<jobId>/ of the same job, replaces every other
\* candidate by the URL derived from the job id, and so returns a URL under
\* /image/<jobId>/ whenever it returns one.
C21_CanonicalTest ==
    (probe.fn \in {"normalizeGlbUrl", "normalizePreviewUrl"} /\ Truthy(probe.url)) =>
        LET derived == IF probe.fn = "normalizeGlbUrl"
                       THEN getDirectS3GlbUrl(probe.jobId)
                       ELSE getDirectS3PreviewUrl(probe.jobId)
        IN /\ IsCanonicalFor(probe.jobId, probe.url) => probe.out = probe.url
           /\ ~IsCanonicalFor(probe.jobId, probe.url) => probe.out = derived
           /\ IsCanonicalFor(probe.jobId, probe.out)

\* C22 (as claimed): when syncJobFromApi has run to its end on a response
\* whose status maps to FAIL, the stored errorMessage is the error of the
\* payload, or a generic "job failed" message when the payload carries none,
\* and the stored errorCode is null.
C22_FailureRecorded ==
    (SyncDone /\ last.ret /\ convertStatus(ApiJob.status) = "FAIL") =>
        /\ jobs[last.job].status = "FAIL"
        /\ jobs[last.job].errorMessage = Or(ApiJob.error, JobFailed)
        /\ jobs[last.job].errorCode = Null

Fixed(r) == <<r.userId, r.prompt, r.imageUrl, r.createdAt>>

\* C24: syncJobFromApi(jobId) and a push delivery for jobId leave every
\* record other than jobId as it was, remove no record, add none but jobId
\* (the push, when jobId has no record), and of an existing record jobId
\* leave the id, the owner, prompt, imageUrl and createdAt as they were.
C24_WriteScope ==
    (SyncDone \/ PushDone) =>
        /\ DOMAIN last.before \subseteq DOMAIN jobs
        /\ DOMAIN jobs \subseteq DOMAIN last.before \cup {last.job}
        /\ \A id \in DOMAIN last.before :
              /\ id # last.job => jobs[id] = last.before[id]
              /\ Fixed(jobs[id]) = Fixed(last.before[id])

C24_Witness ==
    /\ SyncDone /\ last.ret /\ last.writes = <<"updateJobStatus">>
    /\ jobs[last.job].prompt = Prompt
    /\ jobs[last.job].updatedAt > jobs[last.job].createdAt
    /\ \E id \in DOMAIN jobs : id # last.job /\ jobs[id] = last.before[id]

\* C25 (as claimed): whatever calls of syncJobFromApi and push deliveries
\* have run, a record with a result URL or a preview URL has status DONE.
C25_ResultOnlyInDone ==
    \A id \in DOMAIN jobs :
        (jobs[id].resultGlbUrl # Null \/ jobs[id].previewImageUrl # Null)
            => jobs[id].status = "DONE"

\* C26 (as claimed): whatever calls of syncJobFromApi and push deliveries
\* have run, with whatever payloads, a record with an errorMessage or an
\* errorCode has status FAIL.
C26_ErrorOnlyInFail ==
    \A id \in DOMAIN jobs :
        (jobs[id].errorMessage # Null \/ jobs[id].errorCode # Null)
            => jobs[id].status = "FAIL"

\* C27 (as claimed): GET /status/:jobId, GET /result/:jobId, POST /generate
\* and POST /register-job leave the status, the error fields and the result
\* URLs of every record that exists as they were.
C27_ExclusiveMutation ==
    (last.op \in {"getStatus", "getResult", "generate", "register"}) =>
        \A id \in DOMAIN last.before :
            id \in DOMAIN jobs /\ Stored(jobs[id]) = Stored(last.before[id])

\* C30: a record leaves the table only by DELETE /jobs/:jobId of that
\* record, issued with the token of the user who is its owner; a call of
\* syncJobFromApi, a push delivery and every other handler leave every
\* record in the table, and a record without owner is never removed.
C30_OwnerOnlyDeletion ==
    \A id \in DOMAIN last.before :
        id \notin DOMAIN jobs =>
            /\ last.op = "delete" /\ last.job = id
            /\ Truthy(last.user)
            /\ last.before[id].userId = last.user

C30_Witness ==
    /\ last.op = "delete" /\ last.ret /\ last.user = <<"u1">>
    /\ last.job \notin DOMAIN jobs
    /\ HadRecord /\ last.before[last.job].userId = <<"u1">>
    /\ \E id \in DOMAIN jobs : jobs[id].userId = Null

\* The first of the values that is neither missing nor "", as <<value>>, or
\* <<>> when there is none.
RECURSIVE FirstPresent(_)
FirstPresent(values) ==
    IF values = <<>> THEN <<>>
    ELSE IF Truthy(Head(values)) THEN <<Head(values)>>
    ELSE FirstPresent(Tail(values))

\* C28: the mesh candidate of a result payload is the first non-empty of
\* mesh_url and output, the preview candidate the first non-empty of
\* processed_image_url, generated_image_url, processed_image and
\* generated_image; a candidate that is found is normalized to a URL, and
\* when all fields of a kind are empty or missing the candidate is absent
\* and the value handed to the store is null, on the poll path and on the
\* push path.
C28_CandidatePrecedence ==
    (probe.fn = "candidates") =>
        LET r == probe.result
            mesh == FirstPresent(<<r.mesh_url, r.output>>)
            preview == FirstPresent(<<r.processed_image_url, r.generated_image_url,
                                      r.processed_image, r.generated_image>>)
        IN /\ mesh # <<>> =>
                 /\ probe.mesh = mesh[1] /\ probe.pushGlbUrl = mesh[1]
                 /\ probe.glbUrl = getDirectS3GlbUrl(probe.jobId)
           /\ mesh = <<>> =>
                 /\ ~Truthy(probe.mesh)
                 /\ probe.glbUrl = Null /\ probe.pushGlbUrl = Null
           /\ preview # <<>> =>
                 /\ probe.preview = preview[1] /\ probe.pushPreviewUrl = preview[1]
                 /\ probe.previewUrl = getDirectS3PreviewUrl(probe.jobId)
           /\ preview = <<>> =>
                 /\ ~Truthy(probe.preview)
                 /\ probe.previewUrl = Null /\ probe.pushPreviewUrl = Null

C28_Witness ==
    /\ probe.fn = "candidates"
    /\ probe.result.mesh_url = Empty
    /\ probe.mesh = FieldUrl("output")
    /\ probe.result.processed_image_url = Null
    /\ probe.result.generated_image_url = Empty
    /\ probe.result.generated_image = FieldUrl("generated_image")
    /\ probe.preview = FieldUrl("processed_image")
    /\ probe.previewUrl = getDirectS3PreviewUrl(probe.jobId)

\* How far a job has come at the external API.
Rank(status) ==
    CASE status = "pending" -> 1
      [] status = "processing" -> 2
      [] OTHER -> 3

\* C29 (as claimed): when a call of syncJobFromApi and a push delivery for
\* the same job have both run to their end, and the push carried a status at
\* least as new as the one the poll fetched, the stored status is the
\* mapping of the status the push carried and the stored URLs are the
\* normalized URLs of its result.
C29_PollPushRace ==
    (/\ DOMAIN calls = {"poll", "push"}
     /\ calls.poll.pc = "done" /\ calls.poll.ret
     /\ calls.push.pc = "done" /\ calls.push.ret
     /\ Rank(calls.push.body.status) >= Rank(calls.poll.body.status)) =>
        LET newest == calls.push.body
            row == jobs[RaceJob]
        IN /\ row.status = convertStatus(newest.status)
           /\ (newest.status = "completed" /\ newest.result # NoResult) =>
                 /\ row.resultGlbUrl =
                      normalizeGlbUrl(RaceJob, MeshCandidate(newest.result[1]))
                 /\ row.previewImageUrl =
                      normalizePreviewUrl(RaceJob, PreviewCandidate(newest.result[1]))

\* The jobs of the batches before the one at position c.i.
EarlierSet(c) == {c.selected[j] : j \in {j \in 1..Len(c.selected) : j <= c.i}}

\* C31: within one execution of syncAllJobs the requests issued are those of
\* the batches started so far, and a batch is started only when every job of
\* the batches before it has been reconciled; during the pause no request is
\* outstanding and another batch follows; after the last batch the
\* execution returns without a pause.
C31_BatchOrdering ==
    \A k \in 1..Len(cycles) :
        LET c == cycles[k]
        IN /\ c.phase \in {"batch", "delay"} =>
                 /\ c.requested = Cardinality(StartedSet(c))
                 /\ EarlierSet(c) \subseteq DOMAIN c.results
                 /\ c.outstanding \subseteq Batch(c.selected, c.i)
           /\ c.phase = "delay" =>
                 /\ c.outstanding = {}
                 /\ StartedSet(c) = DOMAIN c.results
                 /\ c.i + BATCH_SIZE < Len(c.selected)
           /\ (c.phase = "returned" /\ c.exit = "done") =>
                 /\ c.requested = Len(c.selected)
                 /\ c.i + BATCH_SIZE >= Len(c.selected)

C31_Witness ==
    \E k \in 1..Len(cycles) :
        /\ cycles[k].phase = "batch"
        /\ cycles[k].i = BATCH_SIZE
        /\ cycles[k].outstanding # {}
        /\ Cardinality(DOMAIN cycles[k].results) = BATCH_SIZE
        /\ cycles[k].requested = BATCH_SIZE + 1

\* The positions at which the loop of syncAllJobs starts a batch.
BatchStarts(c) == {i \in 0..Len(c.selected) : i % BATCH_SIZE = 0 /\ i < Len(c.selected)}

\* C32: within one execution of syncAllJobs every selected job lies in
\* exactly one batch, a job is outstanding or reconciled but never both, and
\* when the execution has returned the number of calls of syncJobFromApi is
\* the number of selected jobs and every selected job has been reconciled.
C32_PartitionComplete ==
    \A k \in 1..Len(cycles) :
        LET c == cycles[k]
        IN /\ \A j \in 1..Len(c.selected) :
                 /\ Cardinality({i \in BatchStarts(c) : c.selected[j] \in Batch(c.selected, i)})
                      = 1
                 /\ \A h \in 1..Len(c.selected) : c.selected[h] = c.selected[j] => h = j
           /\ c.outstanding \cap DOMAIN c.results = {}
           /\ c.requested = Cardinality(c.outstanding) + Cardinality(DOMAIN c.results)
           /\ (c.phase = "returned" /\ c.exit = "done") =>
                 /\ c.requested = Len(c.selected)
                 /\ DOMAIN c.results = SelectedSet(c)

C32_Witness ==
    \E k \in 1..Len(cycles) :
        /\ cycles[k].phase = "returned" /\ cycles[k].exit = "done"
        /\ Len(cycles[k].selected) = BATCH_SIZE + 1
        /\ cycles[k].requested = BATCH_SIZE + 1
        /\ Cardinality(DOMAIN cycles[k].results) = BATCH_SIZE + 1

C34_ScanFailure ==
    \A k \in 1..Len(cycles) :
        LET c == cycles[k]
        IN /\ c.exit \in {"none", "empty", "done", "caught"}
           /\ c.exit = "caught" =>
                 /\ c.phase = "returned"
                 /\ c.ret = [synced |-> 0, failed |-> 0]
                 /\ c.selected = <<>> /\ DOMAIN c.results = {}
                 /\ c.requested = 0
                 /\ c.writes = 0

C34_Witness ==
    \E k \in 1..Len(cycles) :
        /\ cycles[k].phase = "returned" /\ cycles[k].exit = "caught"
        /\ cycles[k].ret = [synced |-> 0, failed |-> 0]
        /\ \E id \in DOMAIN jobs : jobs[id].status = "RUN"
        /\ \E id \in DOMAIN jobs : jobs[id].status = "WAIT"
        /\ now = 0

\* C35 (as claimed): when deliveries for a job that had no record have run
\* to their end, also two of them side by side, each has been answered with
\* success, one record of the job exists, and its status is the mapped
\* status of one of the payloads.
C35_PushCreatesUnseen ==
    (calls # NoCalls /\ \A c \in DOMAIN calls : calls[c].op = "push" /\ calls[c].pc = "done") =>
        /\ \A c \in DOMAIN calls : calls[c].ret
        /\ RaceJob \in DOMAIN jobs
        /\ \E c \in DOMAIN calls :
              jobs[RaceJob].status = routeConvertStatus(calls[c].body.status)

\* The record of the job holds a result URL and a preview URL.
HasArtifacts(id) ==
    id \in DOMAIN jobs /\ jobs[id].resultGlbUrl # Null /\ jobs[id].previewImageUrl # Null

\* C36 (as claimed): while executions of syncAllJobs keep coming, a job that
\* is stored DONE and whose external result carries artifact URLs eventually
\* has its result URL and preview URL stored, also when the result write
\* that followed the status write failed.
C36_RetryAfterPartialWrite ==
    \A id \in 1..2 :
        (HasStatus(id, "DONE") /\ Reported(id, "completed")
            /\ api[id].body.result # NoResult)
          ~> HasArtifacts(id)

\* C38 (as claimed): no call of syncJobFromApi and no push delivery moves
\* the stored status of a job from RUN back to WAIT, whatever status the
\* external API reports.
C38_NoRunToWait ==
    ((SyncDone \/ PushDone) /\ HadRecord /\ last.before[last.job].status = "RUN"
        /\ last.job \in DOMAIN jobs)
      => jobs[last.job].status # "WAIT"

\* C37 (as claimed): syncJobFromApi never replaces a stored result URL or
\* preview URL with null, whatever the external result carries.
C37_NoArtifactLoss ==
    (RaceJob \in DOMAIN last.before /\ RaceJob \in DOMAIN jobs) =>
        /\ last.before[RaceJob].resultGlbUrl # Null => jobs[RaceJob].resultGlbUrl # Null
        /\ last.before[RaceJob].previewImageUrl # Null => jobs[RaceJob].previewImageUrl # Null

\* Every call in progress has returned.
AllReturned == calls # NoCalls /\ \A c \in DOMAIN calls : calls[c].pc = "done"

\* C39: when two calls of syncJobFromApi for the same job against the same
\* external answer have both returned, however their reads and writes were
\* interleaved, the stored status, error fields and result URLs are those
\* that a single call leaves.
C39_ConcurrentSyncConverges ==
    (AllReturned /\ RaceJob \in DOMAIN jobs /\ \A c \in DOMAIN calls : calls[c].op = "sync") =>
        Stored(jobs[RaceJob]) =
            Stored(syncJobFromApi(last.before, 0, RaceJob, api[RaceJob], "none").jobs[RaceJob])

\* Both calls read the record before either wrote, and both wrote the
\* status and the result.
C39_Witness ==
    /\ AllReturned
    /\ \A c \in DOMAIN calls :
          calls[c].op = "sync" /\ calls[c].writes = <<"updateJobStatus", "updateJobResult">>

\* The register-job requests that have written the owner of the record.
OwnerWriters ==
    {c \in DOMAIN calls :
        calls[c].op = "register"
          /\ \E i \in 1..Len(calls[c].writes) : calls[c].writes[i] = "setJobOwner"}

\* C40 (as claimed): the owner of a record, once set, does not change: a
\* record that had an owner keeps it, and of the register-job requests of
\* different users for one job at most one assigns the owner, under every
\* interleaving of the requests with each other and with syncJobFromApi.
C40_OwnerStable ==
    /\ (RaceJob \in DOMAIN last.before /\ RaceJob \in DOMAIN jobs
          /\ last.before[RaceJob].userId # Null)
         => jobs[RaceJob].userId = last.before[RaceJob].userId
    /\ Cardinality(OwnerWriters) <= 1

====
